---------------------------- MODULE Spec2Model ----------------------------
(***************************************************************************)
(* A model of DialogSafe: the local-Whisper backend (model cache and       *)
(* per-model transcribe lock), the per-chunk retry/fallback loop, the      *)
(* worker-pool aggregation, the profanity detector, the span merger, the   *)
(* audio chunker and the final remux of the pipeline.                      *)
(*                                                                         *)
(* Times are integer ticks, confidences are integer percentages, and       *)
(* strings are sequences of one-character strings.                         *)
(***************************************************************************)
EXTENDS Integers, Sequences, FiniteSets, TLC

(***************************************************************************)
(* Bounds of the model.                                                    *)
(***************************************************************************)
NumThreads == 2
MaxCalls == 3

(***************************************************************************)
(* Characters and strings.                                                 *)
(***************************************************************************)
\* Python's None where a string is expected: no string of characters equals it.
None == <<"None">>

IsSpace(c) == c = " "

RECURSIVE LStrip(_)
LStrip(s) == IF s # <<>> /\ IsSpace(Head(s)) THEN LStrip(Tail(s)) ELSE s

RECURSIVE RStrip(_)
RStrip(s) ==
    IF s # <<>> /\ IsSpace(s[Len(s)]) THEN RStrip(SubSeq(s, 1, Len(s) - 1)) ELSE s

\* str.strip()
Strip(s) == RStrip(LStrip(s))

Base == <<"b", "a", "s", "e">>
Tiny == <<"t", "i", "n", "y">>
Whisper1 == <<"w", "h", "i", "s", "p", "e", "r", "-", "1">>
Small == <<"s", "m", "a", "l", "l">>
Medium == <<"m", "e", "d", "i", "u", "m">>
Large == <<"l", "a", "r", "g", "e">>
SpBase == <<" ">> \o Base
CapTiny == <<"T", "i", "n", "y">>

\* str.lower() on one character, for the characters the model uses.
LowerChar(c) ==
    CASE c = "A" -> "a"
      [] c = "B" -> "b"
      [] c = "S" -> "s"
      [] c = "T" -> "t"
      [] OTHER -> c

\* str.lower()
Lower(s) == [i \in DOMAIN s |-> LowerChar(s[i])]

VARIABLES
    lwPc,                           \* position of each thread in transcribe_audio
    lwArg,                          \* the `model` argument of the call in progress
    lwMdl,                          \* local `mdl` (0: not bound yet)
    lwLock,                         \* local `lock` (0: not bound yet)
    local_whisper_models,           \* _local_whisper_models: name -> instance (0: absent)
    local_whisper_models_lock,      \* holder of _local_whisper_models_lock (0: free)
    local_whisper_transcribe_locks, \* _local_whisper_transcribe_locks: name -> lock (0: absent)
    lockOwner,                      \* threading.Lock objects: lock -> holder (0: free)
    nextLock,                       \* the next lock object to be constructed
    nextInstance,                   \* the next model instance to be constructed
    loadCalls,                      \* history: whisper.load_model invocations per name
    loadFails,                      \* history: whisper.load_model invocations that raised
    callsLeft                       \* calls of transcribe_audio still to be started

lwVars == <<lwPc, lwArg, lwMdl, lwLock, local_whisper_models,
            local_whisper_models_lock, local_whisper_transcribe_locks,
            lockOwner, nextLock, nextInstance, loadCalls, loadFails, callsLeft>>

VARIABLES
    tcPc,           \* "start", "attempt", "returned" or "failed" (RuntimeError raised)
    tcBackend,      \* config.whisper_backend
    tcConfigured,   \* config.whisper_model
    tcPrimaryArg,   \* the primary_model argument (None when not given)
    tcFallbackArg,  \* the fallback_model argument (None when not given)
    max_retries,    \* the max_retries argument
    models_to_try,  \* (effective_primary, effective_fallback), normalised
    tcIdx,          \* index in models_to_try of the outer loop
    tcAttempt,      \* `attempt` of the inner loop
    last_err,       \* last_err (0: None, else the number of the call that raised)
    tcLog,          \* history: the backend calls made, in order
    tcResult        \* the dict returned (call 0 before the return)

tcVars == <<tcPc, tcBackend, tcConfigured, tcPrimaryArg, tcFallbackArg,
            max_retries, models_to_try, tcIdx, tcAttempt, last_err, tcLog,
            tcResult>>

VARIABLES
    aggPc,          \* main thread: "submit", "collect", "done" or "raised"
    chunks,         \* the `chunks` argument: AudioChunk records, in order
    chunkOutcome,   \* what transcribe_chunk yields for each chunk (fixed per run)
    max_workers,    \* the size of the pool
    submitted,      \* number of chunks handed to executor.submit so far
    workQueue,      \* the executor's queue: positions in `chunks`, oldest first
    running,        \* worker -> position of the chunk it transcribes (0: idle)
    finished,       \* positions whose future is done
    collected,      \* positions whose future as_completed has yielded so far
    all_segments,   \* all_segments
    languages,      \* languages
    failedLog,      \* indexes of the chunks logged as failed, in order
    aggResult       \* the TranscriptionResult returned

aggVars == <<aggPc, chunks, chunkOutcome, max_workers, submitted, workQueue,
             running, finished, collected, all_segments, languages, failedLog,
             aggResult>>

VARIABLES
    dpPc,           \* "start", "done", "merged" or "cleaned"
    dpSegments,     \* transcription.segments
    dpTerms,        \* profanity_terms: the texts of the terms, in order
    min_confidence, \* config.min_confidence, in percent
    mode,           \* config.mode
    hits,           \* the list detect_profanity returns
    dpSpans,        \* the spans merged from hits for the clean transcript
    clean_text      \* the text build_clean_transcript returns

dpVars == <<dpPc, dpSegments, dpTerms, min_confidence, mode, hits, dpSpans,
            clean_text>>

VARIABLES
    mpPc,           \* "start" or "done"
    mpHits,         \* merge_profanity_spans: hits
    max_gap_ms,     \* merge_profanity_spans: max_gap_ms
    merged          \* the list merge_profanity_spans returns

mpVars == <<mpPc, mpHits, max_gap_ms, merged>>

VARIABLES
    caPc,                  \* "start", "done", "RuntimeError" or "ValueError"
    n_channels,            \* the channel count of the input WAV
    framerate,             \* its frame rate, in frames per second
    n_frames,              \* its number of frames
    chunk_length_seconds,  \* chunk_audio: chunk_length_seconds
    caChunks               \* the list chunk_audio returns

caVars == <<caPc, n_channels, framerate, n_frames, chunk_length_seconds,
            caChunks>>

VARIABLES
    rpPc,                    \* the position of run_pipeline
    force,                   \* config.force
    vtMode,                  \* config.mode of the pipeline run
    inputAudio,              \* the audio streams of config.input_path
    inputCensored,           \* the input is the output of a run that censored a span
    rpSpans,                 \* run_pipeline: spans
    primary_audio_codec,     \* probed codec name of stream 0:a:0
    primary_audio_bit_rate,  \* probed bit rate of stream 0:a:0
    cmd,                     \* the ffmpeg command of the final mux
    outputAudio,             \* the audio streams of config.output_path
    stagesRun,               \* the stages the current run has executed
    runsLeft                 \* the runs of the pipeline still to start

vtVars == <<rpPc, force, vtMode, inputAudio, inputCensored, rpSpans,
            primary_audio_codec, primary_audio_bit_rate, cmd, outputAudio,
            stagesRun, runsLeft>>

VARIABLES
    prPc,           \* "start", "done", or the exception raised: "TypeError", "ValueError"
    prRaw,          \* _parse_transcript_response: raw
    prChunk,        \* _parse_transcript_response: chunk
    prLanguage,     \* the language _parse_transcript_response returns
    prSegments      \* the segments _parse_transcript_response returns

prVars == <<prPc, prRaw, prChunk, prLanguage, prSegments>>

VARIABLES
    tsPc,           \* "start" or "done"
    tsTime,         \* _format_srt_timestamp: t, in ticks of 1/TicksPerMs ms
    tsText          \* the text _format_srt_timestamp returns

tsVars == <<tsPc, tsTime, tsText>>

VARIABLES
    gcPc,           \* the position of each worker in get_client
    client,         \* openai_api._client: 0 is None, else the client object
    clientsMade,    \* the number of OpenAI() objects constructed so far
    gcGot,          \* the client each worker's last get_client returned
    gcCallsLeft     \* the calls of get_client still to start

gcVars == <<gcPc, client, clientsMade, gcGot, gcCallsLeft>>

vars == <<lwVars, tcVars, aggVars, dpVars, mpVars, caVars, vtVars, prVars,
          tsVars, gcVars>>

\* What each part of the program leaves alone.
lwFrame == <<tcVars, aggVars, dpVars, mpVars, caVars, vtVars,
              prVars, tsVars, gcVars>>
tcFrame == <<lwVars, aggVars, dpVars, mpVars, caVars, vtVars,
              prVars, tsVars, gcVars>>
aggFrame == <<lwVars, tcVars, dpVars, mpVars, caVars, vtVars,
               prVars, tsVars, gcVars>>
dpFrame == <<lwVars, tcVars, aggVars, mpVars, caVars, vtVars,
              prVars, tsVars, gcVars>>
mpFrame == <<lwVars, tcVars, aggVars, dpVars, caVars, vtVars,
              prVars, tsVars, gcVars>>
caFrame == <<lwVars, tcVars, aggVars, dpVars, mpVars, vtVars,
              prVars, tsVars, gcVars>>
vtFrame == <<lwVars, tcVars, aggVars, dpVars, mpVars, caVars,
              prVars, tsVars, gcVars>>
prFrame == <<lwVars, tcVars, aggVars, dpVars, mpVars, caVars, vtVars,
             tsVars, gcVars>>
tsFrame == <<lwVars, tcVars, aggVars, dpVars, mpVars, caVars, vtVars,
             prVars, gcVars>>
gcFrame == <<lwVars, tcVars, aggVars, dpVars, mpVars, caVars, vtVars,
             prVars, tsVars>>

(***************************************************************************)
(* local_whisper.py: the model cache, the coarse lock and the per-model    *)
(* transcribe locks.                                                       *)
(***************************************************************************)
Threads == 1..NumThreads

\* The `model` arguments the callers pass.
RawNames == {<<>>, Base, SpBase, Tiny}

\* model_name = (model_name or "base").strip()
ModelKey(name) == Strip(IF name = <<>> THEN Base ELSE name)

ModelKeys == {ModelKey(n) : n \in RawNames}

LockIds == 1..MaxCalls

LwInit ==
    /\ lwPc = [t \in Threads |-> "idle"]
    /\ lwArg = [t \in Threads |-> <<>>]
    /\ lwMdl = [t \in Threads |-> 0]
    /\ lwLock = [t \in Threads |-> 0]
    /\ local_whisper_models = [k \in ModelKeys |-> 0]
    /\ local_whisper_models_lock = 0
    /\ local_whisper_transcribe_locks = [k \in ModelKeys |-> 0]
    /\ lockOwner = [l \in LockIds |-> 0]
    /\ nextLock = 1
    /\ nextInstance = 1
    /\ loadCalls = [k \in ModelKeys |-> 0]
    /\ loadFails = [k \in ModelKeys |-> 0]
    /\ callsLeft = MaxCalls

\* A worker enters transcribe_audio(audio_path, language=..., model=name).
StartCall(t, name) ==
    /\ lwPc[t] \in {"idle", "raised"}
    /\ callsLeft > 0
    /\ callsLeft' = callsLeft - 1
    /\ lwPc' = [lwPc EXCEPT ![t] = "gm_acq"]
    /\ lwArg' = [lwArg EXCEPT ![t] = name]
    /\ lwMdl' = [lwMdl EXCEPT ![t] = 0]
    /\ lwLock' = [lwLock EXCEPT ![t] = 0]
    /\ UNCHANGED <<local_whisper_models, local_whisper_models_lock,
                   local_whisper_transcribe_locks, lockOwner, nextLock,
                   nextInstance, loadCalls, loadFails>>
    /\ UNCHANGED lwFrame

\* A seeded bug: the cache is read without taking the coarse lock.
GetModel_Acquire_NoLock(t) ==
    /\ lwPc[t] = "gm_acq"
    /\ lwPc' = [lwPc EXCEPT ![t] = "gm_check"]
    /\ UNCHANGED <<lwArg, lwMdl, lwLock, local_whisper_models,
                   local_whisper_models_lock, local_whisper_transcribe_locks,
                   lockOwner, nextLock, nextInstance, loadCalls, loadFails,
                   callsLeft>>
    /\ UNCHANGED lwFrame

\* _get_local_whisper_model: `with _local_whisper_models_lock:` entered.
GetModel_Acquire(t) ==
    /\ lwPc[t] = "gm_acq"
    /\ local_whisper_models_lock = 0
    /\ local_whisper_models_lock' = t
    /\ lwPc' = [lwPc EXCEPT ![t] = "gm_check"]
    /\ UNCHANGED <<lwArg, lwMdl, lwLock, local_whisper_models,
                   local_whisper_transcribe_locks, lockOwner, nextLock,
                   nextInstance, loadCalls, loadFails, callsLeft>>
    /\ UNCHANGED lwFrame

\* A seeded bug: on a miss the coarse lock is released before the load.
GetModel_Check_EarlyRelease(t) ==
    /\ lwPc[t] = "gm_check"
    /\ LET k == ModelKey(lwArg[t]) IN
       IF local_whisper_models[k] # 0
       THEN /\ lwMdl' = [lwMdl EXCEPT ![t] = local_whisper_models[k]]
            /\ lwPc' = [lwPc EXCEPT ![t] = "gl_acq"]
            /\ UNCHANGED loadCalls
       ELSE /\ loadCalls' = [loadCalls EXCEPT ![k] = @ + 1]
            /\ lwPc' = [lwPc EXCEPT ![t] = "gm_load"]
            /\ UNCHANGED lwMdl
    /\ local_whisper_models_lock' =
           IF local_whisper_models_lock = t THEN 0 ELSE local_whisper_models_lock
    /\ UNCHANGED <<lwArg, lwLock, local_whisper_models,
                   local_whisper_transcribe_locks, lockOwner, nextLock,
                   nextInstance, loadFails, callsLeft>>
    /\ UNCHANGED lwFrame

\* _get_local_whisper_model: the cache lookup.  A hit returns the cached
\* instance and leaves the `with` block; a miss calls whisper.load_model
\* with the coarse lock still held.
GetModel_Check(t) ==
    /\ lwPc[t] = "gm_check"
    /\ LET k == ModelKey(lwArg[t]) IN
       IF local_whisper_models[k] # 0
       THEN /\ lwMdl' = [lwMdl EXCEPT ![t] = local_whisper_models[k]]
            /\ local_whisper_models_lock' =
                   IF local_whisper_models_lock = t THEN 0
                   ELSE local_whisper_models_lock
            /\ lwPc' = [lwPc EXCEPT ![t] = "gl_acq"]
            /\ UNCHANGED loadCalls
       ELSE /\ loadCalls' = [loadCalls EXCEPT ![k] = @ + 1]
            /\ lwPc' = [lwPc EXCEPT ![t] = "gm_load"]
            /\ UNCHANGED <<lwMdl, local_whisper_models_lock>>
    /\ UNCHANGED <<lwArg, lwLock, local_whisper_models,
                   local_whisper_transcribe_locks, lockOwner, nextLock,
                   nextInstance, loadFails, callsLeft>>
    /\ UNCHANGED lwFrame

\* whisper.load_model returns: the instance is cached and returned.
GetModel_LoadOk(t) ==
    /\ lwPc[t] = "gm_load"
    /\ LET k == ModelKey(lwArg[t]) IN
       /\ local_whisper_models' = [local_whisper_models EXCEPT ![k] = nextInstance]
       /\ lwMdl' = [lwMdl EXCEPT ![t] = nextInstance]
    /\ nextInstance' = nextInstance + 1
    /\ local_whisper_models_lock' =
           IF local_whisper_models_lock = t THEN 0 ELSE local_whisper_models_lock
    /\ lwPc' = [lwPc EXCEPT ![t] = "gl_acq"]
    /\ UNCHANGED <<lwArg, lwLock, local_whisper_transcribe_locks, lockOwner,
                   nextLock, loadCalls, loadFails, callsLeft>>
    /\ UNCHANGED lwFrame

\* whisper.load_model (or `import whisper`) raises: the `with` block releases
\* the coarse lock and the exception leaves transcribe_audio.
GetModel_LoadFail(t) ==
    /\ lwPc[t] = "gm_load"
    /\ loadFails' = [loadFails EXCEPT ![ModelKey(lwArg[t])] = @ + 1]
    /\ local_whisper_models_lock' =
           IF local_whisper_models_lock = t THEN 0 ELSE local_whisper_models_lock
    /\ lwPc' = [lwPc EXCEPT ![t] = "idle"]
    /\ UNCHANGED <<lwArg, lwMdl, lwLock, local_whisper_models,
                   local_whisper_transcribe_locks, lockOwner, nextLock,
                   nextInstance, loadCalls, callsLeft>>
    /\ UNCHANGED lwFrame

\* _get_transcribe_lock: `with _local_whisper_models_lock:` entered.
GetLock_Acquire(t) ==
    /\ lwPc[t] = "gl_acq"
    /\ local_whisper_models_lock = 0
    /\ local_whisper_models_lock' = t
    /\ lwPc' = [lwPc EXCEPT ![t] = "gl_get"]
    /\ UNCHANGED <<lwArg, lwMdl, lwLock, local_whisper_models,
                   local_whisper_transcribe_locks, lockOwner, nextLock,
                   nextInstance, loadCalls, loadFails, callsLeft>>
    /\ UNCHANGED lwFrame

\* A seeded bug: a new lock is made on every call and never registered.
GetLock_Get_NoStore(t) ==
    /\ lwPc[t] = "gl_get"
    /\ lwLock' = [lwLock EXCEPT ![t] = nextLock]
    /\ nextLock' = nextLock + 1
    /\ local_whisper_models_lock' = 0
    /\ lwPc' = [lwPc EXCEPT ![t] = "tl_acq"]
    /\ UNCHANGED <<lwArg, lwMdl, local_whisper_models,
                   local_whisper_transcribe_locks, lockOwner, nextInstance,
                   loadCalls, loadFails, callsLeft>>
    /\ UNCHANGED lwFrame

\* _get_transcribe_lock: get the lock registered for the name, or construct
\* and register one; leave the `with` block.
GetLock_Get(t) ==
    /\ lwPc[t] = "gl_get"
    /\ LET k == ModelKey(lwArg[t]) IN
       IF local_whisper_transcribe_locks[k] = 0
       THEN /\ local_whisper_transcribe_locks' =
                   [local_whisper_transcribe_locks EXCEPT ![k] = nextLock]
            /\ lwLock' = [lwLock EXCEPT ![t] = nextLock]
            /\ nextLock' = nextLock + 1
       ELSE /\ lwLock' = [lwLock EXCEPT ![t] = local_whisper_transcribe_locks[k]]
            /\ UNCHANGED <<local_whisper_transcribe_locks, nextLock>>
    /\ local_whisper_models_lock' = 0
    /\ lwPc' = [lwPc EXCEPT ![t] = "tl_acq"]
    /\ UNCHANGED <<lwArg, lwMdl, local_whisper_models, lockOwner, nextInstance,
                   loadCalls, loadFails, callsLeft>>
    /\ UNCHANGED lwFrame

\* transcribe_audio: `with lock:` entered; mdl.transcribe(...) is called.
Transcribe_Enter(t) ==
    /\ lwPc[t] = "tl_acq"
    /\ lockOwner[lwLock[t]] = 0
    /\ lockOwner' = [lockOwner EXCEPT ![lwLock[t]] = t]
    /\ lwPc' = [lwPc EXCEPT ![t] = "infer"]
    /\ UNCHANGED <<lwArg, lwMdl, lwLock, local_whisper_models,
                   local_whisper_models_lock, local_whisper_transcribe_locks,
                   nextLock, nextInstance, loadCalls, loadFails, callsLeft>>
    /\ UNCHANGED lwFrame

\* mdl.transcribe returns: the `with` block releases the per-model lock and
\* transcribe_audio returns the normalised result.
Transcribe_Return(t) ==
    /\ lwPc[t] = "infer"
    /\ lockOwner' = [lockOwner EXCEPT ![lwLock[t]] = 0]
    /\ lwPc' = [lwPc EXCEPT ![t] = "idle"]
    /\ UNCHANGED <<lwArg, lwMdl, lwLock, local_whisper_models,
                   local_whisper_models_lock, local_whisper_transcribe_locks,
                   nextLock, nextInstance, loadCalls, loadFails, callsLeft>>
    /\ UNCHANGED lwFrame

\* A seeded bug: an exception leaves the per-model lock held.
Transcribe_Raise_KeepsLock(t) ==
    /\ lwPc[t] = "infer"
    /\ lwPc' = [lwPc EXCEPT ![t] = "raised"]
    /\ UNCHANGED <<lwArg, lwMdl, lwLock, local_whisper_models,
                   local_whisper_models_lock, local_whisper_transcribe_locks,
                   lockOwner, nextLock, nextInstance, loadCalls, loadFails,
                   callsLeft>>
    /\ UNCHANGED lwFrame

\* mdl.transcribe raises: the `with` block releases the per-model lock and
\* the exception leaves transcribe_audio.
Transcribe_Raise(t) ==
    /\ lwPc[t] = "infer"
    /\ lockOwner' = [lockOwner EXCEPT ![lwLock[t]] = 0]
    /\ lwPc' = [lwPc EXCEPT ![t] = "raised"]
    /\ UNCHANGED <<lwArg, lwMdl, lwLock, local_whisper_models,
                   local_whisper_models_lock, local_whisper_transcribe_locks,
                   nextLock, nextInstance, loadCalls, loadFails, callsLeft>>
    /\ UNCHANGED lwFrame

\* The steps of thread t inside a call of transcribe_audio.
LwStepOf(t) ==
    \/ GetModel_Acquire(t)
    \/ GetModel_Check(t)
    \/ GetModel_LoadOk(t)
    \/ GetModel_LoadFail(t)
    \/ GetLock_Acquire(t)
    \/ GetLock_Get(t)
    \/ Transcribe_Enter(t)
    \/ Transcribe_Return(t)
    \/ Transcribe_Raise(t)

LwStep == \E t \in Threads : LwStepOf(t)

LwNext ==
    \E t \in Threads :
        \/ \E name \in RawNames : StartCall(t, name)
        \/ GetModel_Acquire(t)
        \/ GetModel_Check(t)
        \/ GetModel_LoadOk(t)
        \/ GetModel_LoadFail(t)
        \/ GetLock_Acquire(t)
        \/ GetLock_Get(t)
        \/ Transcribe_Enter(t)
        \/ Transcribe_Return(t)
        \/ Transcribe_Raise(t)

(***************************************************************************)
(* transcriber.py: transcribe_chunk, the retry and fallback loop of one    *)
(* chunk.                                                                  *)
(***************************************************************************)
MaxRetries == 2

Backends == {"local_whisper", "openai_api"}

\* The size names of transcriber.py lines 45-54.
LocalSizeNames ==
    {Tiny, Base, Small, Medium, Large,
     Large \o <<"-", "v", "1">>, Large \o <<"-", "v", "2">>,
     Large \o <<"-", "v", "3">>}

\* _normalize_model_for_backend(model, backend)
NormalizeModelForBackend(model, backend) ==
    LET m == Strip(model) IN
    IF m = <<>> THEN m
    ELSE IF backend = "local_whisper"
         THEN (IF m = Whisper1 THEN Base ELSE m)
         ELSE (IF Lower(m) \in LocalSizeNames THEN Whisper1 ELSE m)

\* configured_model = str(getattr(config, "whisper_model", "base") or "base")
ConfiguredModel(cfg) == IF cfg = <<>> THEN Base ELSE cfg

\* effective_primary, before normalisation
EffectivePrimary(primary, cfg) ==
    IF primary # None THEN primary ELSE ConfiguredModel(cfg)

\* effective_fallback, before normalisation
EffectiveFallback(fallback, primary, cfg) ==
    IF fallback # None THEN fallback ELSE EffectivePrimary(primary, cfg)

\* models_to_try = (effective_primary, effective_fallback)
ModelsToTry(primary, fallback, cfg, backend) ==
    <<NormalizeModelForBackend(EffectivePrimary(primary, cfg), backend),
      NormalizeModelForBackend(EffectiveFallback(fallback, primary, cfg), backend)>>

\* The `language` field of a backend response: missing, empty or a code.
ResponseLanguages == {"None", "", "unknown", "en", "fr"}

\* language = str(raw.get("language") or "unknown")
ParsedLanguage(lang) == IF lang = "None" \/ lang = "" THEN "unknown" ELSE lang

NoResult == [language |-> "", call |-> 0]

TcConfiguredModels == {<<>>, Whisper1, Tiny}
TcPrimaryArgs == {None, Base, Whisper1}
TcFallbackArgs == {None, Base, SpBase, Whisper1, CapTiny}

TcInit ==
    /\ tcPc = "start"
    /\ tcBackend \in Backends
    /\ tcConfigured \in TcConfiguredModels
    /\ tcPrimaryArg \in TcPrimaryArgs
    /\ tcFallbackArg \in TcFallbackArgs
    /\ max_retries \in 0..MaxRetries
    /\ models_to_try = <<>>
    /\ tcIdx = 1
    /\ tcAttempt = 1
    /\ last_err = 0
    /\ tcLog = <<>>
    /\ tcResult = NoResult

\* transcribe_chunk is not running.
TcOff ==
    /\ tcPc = "off"
    /\ tcBackend = "openai_api"
    /\ tcConfigured = <<>>
    /\ tcPrimaryArg = None
    /\ tcFallbackArg = None
    /\ max_retries = 0
    /\ models_to_try = <<>>
    /\ tcIdx = 1
    /\ tcAttempt = 1
    /\ last_err = 0
    /\ tcLog = <<>>
    /\ tcResult = NoResult

\* A seeded bug: one attempt too many per model.
AttemptRange_OffByOne(n) == 1..(n + 1)

\* for attempt in range(1, max_retries + 1)
AttemptRange(n) == 1..n

\* The position after the inner loop of models_to_try[idx] ended without a
\* return: the next model, or the raise after the outer loop.
AfterModel(idx) ==
    IF idx < Len(models_to_try)
    THEN [pc |-> "attempt", idx |-> idx + 1, attempt |-> 1]
    ELSE [pc |-> "failed", idx |-> idx, attempt |-> 1]

\* A seeded bug: the fallback test made against the effective fallback model.
BreaksOnUnknown_Effective(language, model) ==
    language = "unknown" /\ model # models_to_try[2]

\* if language == "unknown" and model != fallback_model: break
BreaksOnUnknown(language, model) ==
    language = "unknown" /\ model # tcFallbackArg

\* transcribe_chunk up to the first iteration of the loops.
TC_Begin ==
    /\ tcPc = "start"
    /\ models_to_try' =
           ModelsToTry(tcPrimaryArg, tcFallbackArg, tcConfigured, tcBackend)
    /\ tcPc' = IF AttemptRange(max_retries) = {} THEN "failed" ELSE "attempt"
    /\ UNCHANGED <<tcBackend, tcConfigured, tcPrimaryArg, tcFallbackArg,
                   max_retries, tcIdx, tcAttempt, last_err, tcLog, tcResult>>
    /\ UNCHANGED tcFrame

\* One iteration of the inner loop in which the backend call raises.
TC_AttemptRaises ==
    /\ tcPc = "attempt"
    /\ LET model == models_to_try[tcIdx]
           call == Len(tcLog) + 1
           next == IF tcAttempt + 1 \in AttemptRange(max_retries)
                   THEN [pc |-> "attempt", idx |-> tcIdx, attempt |-> tcAttempt + 1]
                   ELSE AfterModel(tcIdx)
       IN /\ tcLog' = Append(tcLog, [model |-> model, idx |-> tcIdx, out |-> "raise"])
          /\ last_err' = call
          /\ tcPc' = next.pc
          /\ tcIdx' = next.idx
          /\ tcAttempt' = next.attempt
    /\ UNCHANGED <<tcBackend, tcConfigured, tcPrimaryArg, tcFallbackArg,
                   max_retries, models_to_try, tcResult>>
    /\ UNCHANGED tcFrame

\* One iteration of the inner loop in which the backend returns a response
\* whose language field is lang: it is parsed, and either the loop of this
\* model is left (break) or the result is returned.
TC_AttemptResponds(lang) ==
    /\ tcPc = "attempt"
    /\ LET model == models_to_try[tcIdx]
           call == Len(tcLog) + 1
           language == ParsedLanguage(lang)
       IN /\ tcLog' = Append(tcLog, [model |-> model, idx |-> tcIdx, out |-> language])
          /\ IF BreaksOnUnknown(language, model)
             THEN /\ tcPc' = AfterModel(tcIdx).pc
                  /\ tcIdx' = AfterModel(tcIdx).idx
                  /\ tcAttempt' = AfterModel(tcIdx).attempt
                  /\ UNCHANGED tcResult
             ELSE /\ tcPc' = "returned"
                  /\ tcResult' = [language |-> language, call |-> call]
                  /\ UNCHANGED <<tcIdx, tcAttempt>>
    /\ UNCHANGED <<tcBackend, tcConfigured, tcPrimaryArg, tcFallbackArg,
                   max_retries, models_to_try, last_err>>
    /\ UNCHANGED tcFrame

TcNext ==
    \/ TC_Begin
    \/ TC_AttemptRaises
    \/ \E lang \in ResponseLanguages : TC_AttemptResponds(lang)

(***************************************************************************)
(* transcriber.py: transcribe_audio_chunks, the worker pool and the        *)
(* aggregation of the per-chunk results.                                   *)
(***************************************************************************)
MaxChunks == 2
ChunkLen == 2

\* A TranscriptSegment, as far as the aggregation reads it.
Segment(id, start, text, chunk_index) ==
    [id |-> id, start |-> start, text |-> text, chunk_index |-> chunk_index]

\* The chunks chunk_audio makes of n windows: window i starts at i * ChunkLen.
ChunkList(n) == [p \in 1..n |-> [index |-> p - 1, start_time |-> (p - 1) * ChunkLen]]

\* The segment lists a chunk's transcription may hold, in absolute time: in
\* response order, which need be neither time order nor free of equal keys.
SegmentLists(c) ==
    {<<>>,
     <<Segment(0, c.start_time, "x", c.index)>>,
     <<Segment(1, c.start_time + ChunkLen, "x", c.index),
       Segment(0, c.start_time, "y", c.index)>>,
     <<Segment(0, c.start_time, "x", c.index),
       Segment(0, c.start_time, "y", c.index)>>}

ChunkFailure == [ok |-> FALSE, language |-> "", segments |-> <<>>]

\* What transcribe_chunk yields for chunk c: it raises, or returns a dict.
ChunkOutcomes(c) ==
    {ChunkFailure} \cup
    {[ok |-> TRUE, language |-> l, segments |-> sg] :
        l \in {"unknown", "en", "fr"}, sg \in SegmentLists(c)}

NoTranscription == [segments |-> <<>>, language |-> ""]

AggInit ==
    /\ aggPc = "submit"
    /\ \E n \in 0..MaxChunks :
          /\ chunks = ChunkList(n)
          /\ chunkOutcome \in [1..n -> UNION {ChunkOutcomes(ChunkList(n)[p]) : p \in 1..n}]
          /\ \A p \in 1..n : chunkOutcome[p] \in ChunkOutcomes(ChunkList(n)[p])
    /\ max_workers \in Threads
    /\ submitted = 0
    /\ workQueue = <<>>
    /\ running = [w \in Threads |-> 0]
    /\ finished = {}
    /\ collected = <<>>
    /\ all_segments = <<>>
    /\ languages = <<>>
    /\ failedLog = <<>>
    /\ aggResult = NoTranscription

\* transcribe_audio_chunks is not running.
AggOff ==
    /\ aggPc = "off"
    /\ chunks = <<>>
    /\ chunkOutcome = <<>>
    /\ max_workers = 1
    /\ submitted = 0
    /\ workQueue = <<>>
    /\ running = [w \in Threads |-> 0]
    /\ finished = {}
    /\ collected = <<>>
    /\ all_segments = <<>>
    /\ languages = <<>>
    /\ failedLog = <<>>
    /\ aggResult = NoTranscription

\* A seeded bug: the segments are ordered by start alone.
SegKeyLess_StartOnly(a, b) == a.start < b.start

\* key=lambda s: (s.start, s.chunk_index, s.id), compared as tuples
SegKeyLess(a, b) ==
    \/ a.start < b.start
    \/ a.start = b.start /\ a.chunk_index < b.chunk_index
    \/ a.start = b.start /\ a.chunk_index = b.chunk_index /\ a.id < b.id

\* x put into the sorted list t behind every element that is not greater.
RECURSIVE InsertSegment(_, _)
InsertSegment(x, t) ==
    IF t = <<>> THEN <<x>>
    ELSE IF SegKeyLess(x, Head(t)) THEN <<x>> \o t
    ELSE <<Head(t)>> \o InsertSegment(x, Tail(t))

\* list.sort(key=...): a stable sort of the first n elements of s.
RECURSIVE SortPrefix(_, _)
SortPrefix(s, n) == IF n = 0 THEN <<>> ELSE InsertSegment(s[n], SortPrefix(s, n - 1))

\* all_segments.sort(key=lambda s: (s.start, s.chunk_index, s.id))
SortSegments(s) == SortPrefix(s, Len(s))

\* A seeded bug: the last language that is neither empty nor "unknown".
RECURSIVE DominantLanguage_Last(_)
DominantLanguage_Last(langs) ==
    IF langs = <<>> THEN "unknown"
    ELSE IF langs[Len(langs)] # "" /\ langs[Len(langs)] # "unknown"
         THEN langs[Len(langs)]
    ELSE DominantLanguage_Last(SubSeq(langs, 1, Len(langs) - 1))

\* The dominant language: the first one that is neither empty nor "unknown".
RECURSIVE DominantLanguage(_)
DominantLanguage(langs) ==
    IF langs = <<>> THEN "unknown"
    ELSE IF Head(langs) # "" /\ Head(langs) # "unknown" THEN Head(langs)
    ELSE DominantLanguage(Tail(langs))

\* executor.submit(transcribe_chunk, chunk, config) for the next chunk.
Agg_Submit ==
    /\ aggPc = "submit"
    /\ submitted < Len(chunks)
    /\ submitted' = submitted + 1
    /\ workQueue' = Append(workQueue, submitted + 1)
    /\ UNCHANGED <<aggPc, chunks, chunkOutcome, max_workers, running, finished,
                   collected, all_segments, languages, failedLog, aggResult>>
    /\ UNCHANGED aggFrame

\* Every chunk is submitted: the main thread enters the as_completed loop.
Agg_StartCollect ==
    /\ aggPc = "submit"
    /\ submitted = Len(chunks)
    /\ aggPc' = "collect"
    /\ UNCHANGED <<chunks, chunkOutcome, max_workers, submitted, workQueue,
                   running, finished, collected, all_segments, languages,
                   failedLog, aggResult>>
    /\ UNCHANGED aggFrame

\* An idle worker of the pool takes the oldest queued chunk.
Worker_Take(w) ==
    /\ w <= max_workers
    /\ running[w] = 0
    /\ workQueue # <<>>
    /\ running' = [running EXCEPT ![w] = Head(workQueue)]
    /\ workQueue' = Tail(workQueue)
    /\ UNCHANGED <<aggPc, chunks, chunkOutcome, max_workers, submitted, finished,
                   collected, all_segments, languages, failedLog, aggResult>>
    /\ UNCHANGED aggFrame

\* transcribe_chunk returns or raises in a worker: its future is done.
Worker_Finish(w) ==
    /\ running[w] # 0
    /\ finished' = finished \cup {running[w]}
    /\ running' = [running EXCEPT ![w] = 0]
    /\ UNCHANGED <<aggPc, chunks, chunkOutcome, max_workers, submitted, workQueue,
                   collected, all_segments, languages, failedLog, aggResult>>
    /\ UNCHANGED aggFrame

\* A seeded bug: future.result() is called outside a try block.
Agg_Collect_NoCatch(p) ==
    /\ aggPc = "collect"
    /\ p \in finished
    /\ \A i \in DOMAIN collected : collected[i] # p
    /\ collected' = Append(collected, p)
    /\ IF chunkOutcome[p].ok
       THEN /\ languages' = Append(languages, chunkOutcome[p].language)
            /\ all_segments' = all_segments \o chunkOutcome[p].segments
            /\ UNCHANGED aggPc
       ELSE /\ aggPc' = "raised"
            /\ UNCHANGED <<languages, all_segments>>
    /\ UNCHANGED <<chunks, chunkOutcome, max_workers, submitted, workQueue,
                   running, finished, failedLog, aggResult>>
    /\ UNCHANGED aggFrame

\* One iteration of `for future in as_completed(future_to_chunk)`: a future
\* that is done and not yet yielded; its exception is logged, its result is
\* appended.
Agg_Collect(p) ==
    /\ aggPc = "collect"
    /\ p \in finished
    /\ \A i \in DOMAIN collected : collected[i] # p
    /\ collected' = Append(collected, p)
    /\ IF chunkOutcome[p].ok
       THEN /\ languages' = Append(languages, chunkOutcome[p].language)
            /\ all_segments' = all_segments \o chunkOutcome[p].segments
            /\ UNCHANGED failedLog
       ELSE /\ failedLog' = Append(failedLog, chunks[p].index)
            /\ UNCHANGED <<languages, all_segments>>
    /\ UNCHANGED <<aggPc, chunks, chunkOutcome, max_workers, submitted, workQueue,
                   running, finished, aggResult>>
    /\ UNCHANGED aggFrame

\* as_completed is exhausted: the pool is shut down, the segments are sorted,
\* the dominant language is chosen and the TranscriptionResult is returned.
Agg_Return ==
    /\ aggPc = "collect"
    /\ Len(collected) = Len(chunks)
    /\ aggPc' = "done"
    /\ all_segments' = SortSegments(all_segments)
    /\ aggResult' = [segments |-> SortSegments(all_segments),
                     language |-> DominantLanguage(languages)]
    /\ UNCHANGED <<chunks, chunkOutcome, max_workers, submitted, workQueue,
                   running, finished, collected, languages, failedLog>>
    /\ UNCHANGED aggFrame

AggNext ==
    \/ Agg_Submit
    \/ Agg_StartCollect
    \/ \E w \in Threads : Worker_Take(w)
    \/ \E w \in Threads : Worker_Finish(w)
    \/ \E p \in DOMAIN chunks : Agg_Collect(p)
    \/ Agg_Return

(***************************************************************************)
(* profanity_detector.py and domain.py: detect_profanity.                  *)
(***************************************************************************)
MaxWords == 3
LowConf == 20
HighConf == 90
DefaultMinConfidence == 60

\* The characters of the model that are not word characters (\w).
NonWordChars == {" ", "!", ",", "-", "'"}

IsWordChar(c) == c \notin NonWordChars

\* s without its characters that are neither word characters nor apostrophes.
RECURSIVE RemoveUnlessKept(_)
RemoveUnlessKept(s) ==
    IF s = <<>> THEN <<>>
    ELSE (IF IsWordChar(Head(s)) \/ Head(s) = "'" THEN <<Head(s)>> ELSE <<>>)
         \o RemoveUnlessKept(Tail(s))

\* _token_normalize(word): re.sub(r"[^\w']+", "", word.lower())
TokenNormalize(word) == RemoveUnlessKept(Lower(word))

\* Whether position q of text holds a word character.
WordCharAt(text, q) == q \in DOMAIN text /\ IsWordChar(text[q])

\* \b just before position p of text
WordBoundary(text, p) == WordCharAt(text, p - 1) # WordCharAt(text, p)

\* Whether ProfanityTerm.pattern, \b<term>\b with re.IGNORECASE, matches text
\* from position i on.
PatternMatchesAt(term, text, i) ==
    /\ i + Len(term) - 1 <= Len(text)
    /\ Lower(SubSeq(text, i, i + Len(term) - 1)) = Lower(term)
    /\ WordBoundary(text, i)
    /\ WordBoundary(text, i + Len(term))

\* The number of matches term.pattern.finditer(text) yields from position i
\* on: leftmost first, the search resuming behind each match.
RECURSIVE CountMatches(_, _, _)
CountMatches(term, text, i) ==
    IF i > Len(text) THEN 0
    ELSE IF PatternMatchesAt(term, text, i)
         THEN 1 + CountMatches(term, text, i + Len(term))
         ELSE CountMatches(term, text, i + 1)

\* A ProfanityHit.
ProfanityHit(word, start, end, confidence, context, seg) ==
    [word |-> word, start |-> start, end |-> end, confidence |-> confidence,
     context |-> context, segment_id |-> seg.id, chunk_index |-> seg.chunk_index]

\* term_texts: the texts of the terms.
TermTexts == {dpTerms[i] : i \in DOMAIN dpTerms}

\* A seeded bug: a term matches any word that contains it.
RECURSIVE ContainsAt(_, _, _)
ContainsAt(t, s, i) ==
    IF i + Len(t) - 1 > Len(s) THEN FALSE
    ELSE SubSeq(s, i, i + Len(t) - 1) = t \/ ContainsAt(t, s, i + 1)

WordMatches_Substring(norm) == \E t \in TermTexts : ContainsAt(t, norm, 1)

\* if norm in term_texts
WordMatches(norm) == norm \in TermTexts

\* A seeded bug: low-confidence words are skipped in every mode.
WordPasses_NoMuteExemption(conf) == ~(conf < min_confidence)

\* The confidence gate of the word path: a word below min_confidence is
\* skipped unless config.mode is "mute".
WordPasses(conf) == ~(conf < min_confidence /\ mode # "mute")

\* A seeded bug: the segment path gets the exemption of the word path.
SegmentPasses_MuteExempt(conf) == ~(conf < min_confidence /\ mode # "mute")

\* The confidence gate of the segment path.
SegmentPasses(conf) == ~(conf < min_confidence)

\* An average confidence: num / den percent.  The quotient of the code is a
\* float, so it is kept as the fraction and never rounded to a whole percent.
Fraction(num, den) == [num |-> num, den |-> den]

\* The percentage a fraction with denominator 1 stands for: avg_confidence is
\* float(seg_conf), the segment's own confidence, when a segment has no words.
Percent(fr) == fr.num \div fr.den

\* The hits of the word path for the words i.. of segment seg.
RECURSIVE WordHits(_, _)
WordHits(seg, i) ==
    IF i > Len(seg.words) THEN <<>>
    ELSE LET w == seg.words[i]
             norm == TokenNormalize(w.word)
         IN (IF norm # <<>> /\ WordMatches(norm) /\ WordPasses(w.confidence)
             THEN <<ProfanityHit(norm, w.start, w.end, w.confidence,
                                 Strip(seg.text), seg)>>
             ELSE <<>>)
            \o WordHits(seg, i + 1)

\* n copies of x.
Repeat(x, n) == [i \in 1..n |-> x]

\* The hits of the segment path for the terms k.. of profanity_terms: one
\* hit per match, spanning the segment, if the segment's confidence passes.
RECURSIVE RegexHits(_, _)
RegexHits(seg, k) ==
    IF k > Len(dpTerms) THEN <<>>
    ELSE (IF SegmentPasses(Percent(seg.avg_confidence))
          THEN Repeat(ProfanityHit(dpTerms[k], seg.start, seg.end,
                                   Percent(seg.avg_confidence), Strip(seg.text), seg),
                      CountMatches(dpTerms[k], Lower(seg.text), 1))
          ELSE <<>>)
         \o RegexHits(seg, k + 1)

\* if not seg.words
UsesRegexPath(seg) == seg.words = <<>>

\* The hits one segment adds.
SegmentHits(seg) ==
    WordHits(seg, 1) \o (IF UsesRegexPath(seg) THEN RegexHits(seg, 1) ELSE <<>>)

\* The hits of the segments k.. of the transcript, in order of emission.
RECURSIVE EmittedHits(_, _)
EmittedHits(segs, k) ==
    IF k > Len(segs) THEN <<>>
    ELSE SegmentHits(segs[k]) \o EmittedHits(segs, k + 1)

\* key=lambda h: (h.start, h.end), compared as tuples
HitKeyLess(a, b) == a.start < b.start \/ (a.start = b.start /\ a.end < b.end)

RECURSIVE InsertHit(_, _)
InsertHit(x, t) ==
    IF t = <<>> THEN <<x>>
    ELSE IF HitKeyLess(x, Head(t)) THEN <<x>> \o t
    ELSE <<Head(t)>> \o InsertHit(x, Tail(t))

RECURSIVE SortHitsPrefix(_, _)
SortHitsPrefix(s, n) == IF n = 0 THEN <<>> ELSE InsertHit(s[n], SortHitsPrefix(s, n - 1))

\* hits.sort(key=lambda h: (h.start, h.end)), a stable sort
SortHits(s) == SortHitsPrefix(s, Len(s))

\* The words and texts of the transcripts.
Ass == <<"a", "s", "s">>
Class == <<"c", "l", "a", "s", "s">>
Classy == Class \o <<"y">>
Move == <<"m", "o", "v", "e">>
AssBang == <<"A", "s", "s", "!">>
AssS == Ass \o <<"'", "s">>
Dash == <<"-">>

WordVocabulary == {Classy, Ass, Move, AssBang, AssS}

WordlessTexts ==
    {Classy \o <<" ">> \o Ass \o <<" ">> \o Move,
     <<" ">> \o AssBang \o <<" ">> \o Ass \o <<",">>,
     Ass \o <<"-">> \o Move,
     AssS,
     Classy}

TermLists == {<<>>, <<Ass>>, <<Class, Ass>>, <<Ass, Move>>}

\* " ".join(ws)
RECURSIVE JoinWords(_)
JoinWords(ws) ==
    IF ws = <<>> THEN <<>>
    ELSE IF Len(ws) = 1 THEN Head(ws)
    ELSE Head(ws) \o <<" ">> \o JoinWords(Tail(ws))

RECURSIVE SumConfidence(_)
SumConfidence(ws) ==
    IF ws = <<>> THEN 0 ELSE Head(ws).confidence + SumConfidence(Tail(ws))

\* A segment with word timings, as _parse_transcript_response builds it: the
\* word at position i lasts one tick from start + i - 1, the word at position
\* low (if any) has a low confidence, and avg_confidence is
\* sum(confidences) / len(confidences).
WordSegment(id, chunk_index, start, texts, low) ==
    LET ws == [i \in DOMAIN texts |->
                  [word |-> texts[i], start |-> start + i - 1, end |-> start + i,
                   confidence |-> IF i = low THEN LowConf ELSE HighConf]]
    IN [id |-> id, chunk_index |-> chunk_index, start |-> start,
        end |-> start + MaxWords + 1, text |-> JoinWords(texts), words |-> ws,
        avg_confidence |-> Fraction(SumConfidence(ws), Len(ws))]

\* A segment without word timings, as _parse_transcript_response builds it
\* from a response whose segment has the given text and confidence: the text
\* is stored stripped.
WordlessSegment(id, chunk_index, start, text, conf) ==
    [id |-> id, chunk_index |-> chunk_index, start |-> start,
     end |-> start + MaxWords + 1, text |-> Strip(text), words |-> <<>>,
     avg_confidence |-> Fraction(conf, 1)]

\* The segments a transcript may begin with.
FirstSegments ==
    {WordSegment(0, 0, 0, texts, low) :
        texts \in UNION {[1..n -> WordVocabulary] : n \in 1..MaxWords},
        low \in 0..MaxWords}
    \cup {WordlessSegment(0, 0, 0, text, conf) :
             text \in WordlessTexts, conf \in {LowConf, HighConf}}

\* The segments that may follow, from the next chunk.
SecondSegments ==
    {WordlessSegment(0, 1, 1, <<" ">> \o AssBang \o <<" ">> \o Ass \o <<",">>, conf) :
        conf \in {LowConf, HighConf}}
    \cup {WordSegment(0, 1, 1, <<Dash, AssBang>>, low) : low \in {0, Len(<<Dash, AssBang>>)}}

DpInit ==
    /\ dpPc = "start"
    /\ \E s1 \in FirstSegments :
          \/ dpSegments = <<s1>>
          \/ \E s2 \in SecondSegments : dpSegments = <<s1, s2>>
    /\ dpTerms \in TermLists
    /\ min_confidence \in {0, DefaultMinConfidence}
    /\ mode \in {"mute", "bleep"}
    /\ hits = <<>>
    /\ dpSpans = <<>>
    /\ clean_text = <<>>

\* detect_profanity is not running.
DpOff ==
    /\ dpPc = "off"
    /\ dpSegments = <<>>
    /\ dpTerms = <<>>
    /\ min_confidence = 0
    /\ mode = "mute"
    /\ hits = <<>>
    /\ dpSpans = <<>>
    /\ clean_text = <<>>

\* A seeded bug: an empty term list is rejected with an error.
DetectProfanity_RaisesOnEmpty ==
    /\ dpPc = "start"
    /\ IF dpTerms = <<>>
       THEN dpPc' = "InvalidInputError" /\ hits' = hits
       ELSE dpPc' = "done" /\ hits' = SortHits(EmittedHits(dpSegments, 1))
    /\ UNCHANGED <<dpSegments, dpTerms, min_confidence, mode, dpSpans, clean_text>>
    /\ UNCHANGED dpFrame

\* detect_profanity(transcription, profanity_terms, config)
DetectProfanity ==
    /\ dpPc = "start"
    /\ dpPc' = "done"
    /\ hits' = IF dpTerms = <<>> THEN <<>>
               ELSE SortHits(EmittedHits(dpSegments, 1))
    /\ UNCHANGED <<dpSegments, dpTerms, min_confidence, mode, dpSpans, clean_text>>
    /\ UNCHANGED dpFrame

(***************************************************************************)
(* profanity_detector.py: merge_profanity_spans.  Here the times of hits   *)
(* and spans are integer milliseconds.  The code holds them as floats of   *)
(* seconds: a time of t ms is the double nearest to t / 1000, and the      *)
(* comparison of h.start - current_end with max_gap_ms / 1000.0 is done in *)
(* doubles, with their rounding (see WithinGap).                           *)
(***************************************************************************)
MaxHits == 3
MaxHitLength == 400

\* ProfanitySpan(start, end, hits, max_confidence)
ProfanitySpan(start, end, hs, max_confidence) ==
    [start |-> start, end |-> end, hits |-> hs, max_confidence |-> max_confidence]

\* max(a, b)
Max(a, b) == IF a >= b THEN a ELSE b

\* max(h.confidence for h in current_hits), over the first n hits of hs
RECURSIVE MaxConfidence(_, _)
MaxConfidence(hs, n) ==
    IF n = 1 THEN hs[1].confidence
    ELSE Max(MaxConfidence(hs, n - 1), hs[n].confidence)

\* flush(): the list merged after the current span, if any, is appended.
Flush(st) ==
    IF st.current_hits = <<>> THEN st.merged
    ELSE Append(st.merged,
                ProfanitySpan(st.current_start, st.current_end, st.current_hits,
                              MaxConfidence(st.current_hits, Len(st.current_hits))))

\* floor(log2(t / 1000)) for t > 0: the binary exponent of t ms in seconds.
RECURSIVE Exponent(_)
Exponent(t) ==
    IF t >= 2000 THEN Exponent(t \div 2) + 1
    ELSE IF t < 1000 THEN Exponent(2 * t) - 1
    ELSE 0

\* 2^k modulo m
RECURSIVE PowerOfTwoMod(_, _)
PowerOfTwoMod(k, m) == IF k = 0 THEN 1 % m ELSE (2 * PowerOfTwoMod(k - 1, m)) % m

\* The k for which the 53-bit mantissa of the double nearest to t / 1000 is
\* t * 2^k / 1000, rounded: one unit in the last place of that double is 2^-k.
MantissaShift(t) == IF t = 0 THEN 0 ELSE 52 - Exponent(t)

\* t * 2^k modulo 2000, for k = MantissaShift(t): what the division by 1000
\* leaves over (modulo 1000), and whether the quotient is odd.
MantissaRemainder(t) == ((t % 2000) * PowerOfTwoMod(MantissaShift(t), 2000)) % 2000

\* The rounding error of the double nearest to t / 1000, as a multiple of
\* 2^-k / 1000 for k = MantissaShift(t): the double is that much above
\* t / 1000.  (A remainder of exactly 500 cannot occur, 2^k being a multiple
\* of 8.)
FloatError(t) ==
    LET r == MantissaRemainder(t) % 1000
    IN  IF t = 0 THEN 0 ELSE IF r > 500 THEN 1000 - r ELSE 0 - r

\* Whether the mantissa of the double nearest to t / 1000 is odd.
MantissaOdd(t) ==
    LET r == MantissaRemainder(t) % 1000
    IN  (((MantissaRemainder(t) - r) \div 1000) + (IF r > 500 THEN 1 ELSE 0)) % 2 = 1

\* A seeded bug: a gap equal to the limit does not merge.
WithinGap_Strict(h_start, current_end, max_gap) == h_start - current_end < max_gap

\* A seeded bug: the comparison is the wrong way round.
WithinGap_Reversed(h_start, current_end, max_gap) == h_start - current_end >= max_gap

\* gap = h.start - current_end; gap <= max_gap_sec, for max_gap_sec =
\* max_gap_ms / 1000.0, in doubles.  When the exact values differ, by a
\* millisecond or more, the rounding does not matter.  When they are equal
\* the three doubles carry different rounding errors: excess is the exact
\* difference of the two doubles minus the double of the limit, in units of
\* 2^-K / 1000, and the rounded difference is at most the limit when that is
\* at most half the distance from the limit to the next double above it
\* (ties go to the even mantissa).
WithinGap(h_start, current_end, max_gap) ==
    IF h_start - current_end # max_gap THEN h_start - current_end < max_gap
    ELSE IF max_gap = 0 THEN TRUE
    ELSE LET limit == IF max_gap > 0 THEN max_gap ELSE 0 - max_gap
             sign == IF max_gap > 0 THEN 1 ELSE 0 - 1
             K == Max(Max(MantissaShift(h_start), MantissaShift(current_end)),
                      MantissaShift(limit))
             scaled(t) == IF t = 0 THEN 0
                          ELSE FloatError(t) * 2^(K - MantissaShift(t))
             excess == scaled(h_start) - scaled(current_end) - sign * scaled(limit)
             power_of_two == IF Exponent(limit) >= 0
                             THEN limit = 1000 * 2^Exponent(limit)
                             ELSE limit * 2^(0 - Exponent(limit)) = 1000
             half == IF max_gap < 0 /\ power_of_two
                     THEN 250 * 2^(K - MantissaShift(limit))
                     ELSE 500 * 2^(K - MantissaShift(limit))
         IN  \/ excess < half
             \/ excess = half /\ ~MantissaOdd(limit)

\* A seeded bug: the current span's end is replaced by the hit's end.
ExtendEnd_Last(current_end, h) == h.end

\* current_end = max(current_end, h.end)
ExtendEnd(current_end, h) == Max(current_end, h.end)

\* A seeded bug: a hit that opens a new span is not put into it.
OpenSpan_Empty(st, h) ==
    [merged |-> Flush(st), current_start |-> h.start, current_end |-> h.end,
     current_hits |-> <<>>]

\* The else branch of the loop: close the current span and open one at h.
OpenSpan(st, h) ==
    [merged |-> Flush(st), current_start |-> h.start, current_end |-> h.end,
     current_hits |-> <<h>>]

\* One iteration of `for h in hits[1:]`.
MergeStep(st, h, max_gap) ==
    IF WithinGap(h.start, st.current_end, max_gap)
    THEN [st EXCEPT !.current_end = ExtendEnd(@, h),
                    !.current_hits = Append(@, h)]
    ELSE OpenSpan(st, h)

\* The loop from hit i on.
RECURSIVE MergeLoop(_, _, _, _)
MergeLoop(st, hs, i, max_gap) ==
    IF i > Len(hs) THEN st
    ELSE MergeLoop(MergeStep(st, hs[i], max_gap), hs, i + 1, max_gap)

\* merge_profanity_spans(hits, max_gap_ms)
MergeProfanitySpans(hs, max_gap) ==
    IF hs = <<>> THEN <<>>
    ELSE Flush(MergeLoop([merged |-> <<>>, current_start |-> hs[1].start,
                          current_end |-> hs[1].end, current_hits |-> <<hs[1]>>],
                         hs, 2, max_gap))

\* The instants at which the hits of the model begin and end.
HitTimes == {1000, 1200, 1250, 1400, 5000, 5200}

\* A hit of the word "ass" in segment 0 of chunk 0.
MergeHit(start, end, confidence) ==
    ProfanityHit(Ass, start, end, confidence, Ass, [id |-> 0, chunk_index |-> 0])

\* The hits of the model: start <= end, of bounded length.
HitPool ==
    {MergeHit(p[1], p[2], HighConf) :
        p \in {q \in HitTimes \X HitTimes :
                  q[1] <= q[2] /\ q[2] - q[1] <= MaxHitLength}}
    \cup {MergeHit(1000, 1200, LowConf), MergeHit(1250, 1400, LowConf)}

\* The values of max_gap_ms.
Gaps == {-50, 0, 50, 250, 500}

MpInit ==
    /\ mpPc = "start"
    /\ mpHits \in UNION {[1..n -> HitPool] : n \in 0..MaxHits}
    /\ max_gap_ms \in Gaps
    /\ merged = <<>>

\* merge_profanity_spans is not running.
MpOff ==
    /\ mpPc = "off"
    /\ mpHits = <<>>
    /\ max_gap_ms = 0
    /\ merged = <<>>

\* merge_profanity_spans(hits, max_gap_ms)
Merge_Call ==
    /\ mpPc = "start"
    /\ mpPc' = "done"
    /\ merged' = MergeProfanitySpans(mpHits, max_gap_ms)
    /\ UNCHANGED <<mpHits, max_gap_ms>>
    /\ UNCHANGED mpFrame

MpNext == Merge_Call

(***************************************************************************)
(* transcriber.py: build_clean_transcript, called by run_pipeline with the *)
(* spans merged from the hits of detect_profanity.  Times are the ticks of *)
(* the transcript, which are whole seconds; the merge gap is in ms.        *)
(***************************************************************************)
MaskToken == <<"*", "*", "*", "*">>

\* config.max_gap_combine_ms
CombineGaps == {0, 1000}

\* A hit or span with its times multiplied by num / den.
ScaleTimes(x, num, den) ==
    [x EXCEPT !.start = (@ * num) \div den, !.end = (@ * num) \div den]

\* merge_profanity_spans(hits, max_gap_ms) for hits whose times are ticks:
\* the merge is computed on the milliseconds of the ticks, and the spans are
\* given in ticks again.
MergeTicks(hs, max_gap) ==
    LET spans == MergeProfanitySpans([i \in DOMAIN hs |-> ScaleTimes(hs[i], 1000, 1)],
                                     max_gap)
    IN  [k \in DOMAIN spans |->
            [ScaleTimes(spans[k], 1, 1000) EXCEPT
                !.hits = [i \in DOMAIN @ |-> ScaleTimes(@[i], 1, 1000)]]]

\* sep.join(parts)
RECURSIVE JoinWith(_, _)
JoinWith(sep, parts) ==
    IF parts = <<>> THEN <<>>
    ELSE IF Len(parts) = 1 THEN Head(parts)
    ELSE Head(parts) \o <<sep>> \o JoinWith(sep, Tail(parts))

\* is_in_span(t): some span has s_start <= t <= s_end.  (spans.sort() changes
\* the order in which the spans are tried, not the answer.)
IsInSpan(t, spans) ==
    \E i \in DOMAIN spans : spans[i].start <= t /\ t <= spans[i].end

\* tokens: the mask for a word that starts or ends in a span, else the word.
CleanTokens(seg, spans) ==
    [i \in DOMAIN seg.words |->
        IF IsInSpan(seg.words[i].start, spans) \/ IsInSpan(seg.words[i].end, spans)
        THEN MaskToken
        ELSE seg.words[i].word]

\* The line of one segment: seg.text as it is when the segment has no words.
CleanLine(seg, spans) ==
    IF seg.words = <<>> THEN seg.text
    ELSE JoinWith(" ", CleanTokens(seg, spans))

\* build_clean_transcript(result, profanity_spans)
BuildCleanTranscript(segs, spans) ==
    JoinWith("\n", [k \in DOMAIN segs |-> CleanLine(segs[k], spans)])

\* run_pipeline: spans = merge_profanity_spans(hits, max_gap_combine_ms), then,
\* if config.emit_clean_transcript,
\* clean_text = build_clean_transcript(transcription_result, spans); without
\* the option no clean transcript is built and the pipeline goes on with the
\* spans alone.
Clean_Call ==
    /\ dpPc = "done"
    /\ \E g \in CombineGaps, emit_clean_transcript \in BOOLEAN :
          /\ dpSpans' = MergeTicks(hits, g)
          /\ IF emit_clean_transcript
             THEN /\ dpPc' = "cleaned"
                  /\ clean_text' = BuildCleanTranscript(dpSegments, dpSpans')
             ELSE /\ dpPc' = "merged"
                  /\ clean_text' = clean_text
    /\ UNCHANGED <<dpSegments, dpTerms, min_confidence, mode, hits>>
    /\ UNCHANGED dpFrame

DpNext ==
    \/ DetectProfanity
    \/ Clean_Call

(***************************************************************************)
(* audio_tools.py: chunk_audio.  start_time and duration are integer       *)
(* milliseconds; the frame rates of the model divide 1000.                 *)
(***************************************************************************)
MaxFrames == 250
MinChunkDurationMs == 110

\* f"{n:03d}" for 0 <= n < 1000
Pad3(n) ==
    IF n < 10 THEN "00" \o ToString(n)
    ELSE IF n < 100 THEN "0" \o ToString(n)
    ELSE ToString(n)

\* AudioChunk(index, path, start_time, duration)
AudioChunk(index, start_time, duration) ==
    [index |-> index, path |-> "chunk_" \o Pad3(index) \o ".wav",
     start_time |-> start_time, duration |-> duration]

\* min(a, b)
Min(a, b) == IF a <= b THEN a ELSE b

\* frames_per_chunk = int(chunk_length_seconds * framerate)
FramesPerChunk(len, rate) == len * rate

\* total_chunks = (n_frames + frames_per_chunk - 1) // frames_per_chunk
TotalChunks(n, fpc) == (n + fpc - 1) \div fpc

\* frames / float(framerate), in milliseconds
FramesToMs(frames, rate) == (frames * 1000) \div rate

\* A seeded bug: a window of exactly the minimum duration is dropped too.
TooShort_Inclusive(frames, rate) == frames * 1000 <= MinChunkDurationMs * rate

\* duration < min_chunk_duration_seconds
TooShort(frames, rate) == frames * 1000 < MinChunkDurationMs * rate

\* The loop `for index in range(total_chunks)` from window index on.
RECURSIVE ChunkWindows(_, _, _, _, _)
ChunkWindows(index, total, n, fpc, rate) ==
    IF index >= total THEN <<>>
    ELSE LET start_frame == index * fpc
             frames_to_read == Min(fpc, n - start_frame)
         IN  IF frames_to_read <= 0 THEN <<>>
             ELSE IF TooShort(frames_to_read, rate)
             THEN ChunkWindows(index + 1, total, n, fpc, rate)
             ELSE <<AudioChunk(index, FramesToMs(start_frame, rate),
                               FramesToMs(frames_to_read, rate))>>
                  \o ChunkWindows(index + 1, total, n, fpc, rate)

FrameRates == {50, 100}
ChunkLengths == {-1, 0, 1, 2}
ChannelCounts == {1, 2}

CaInit ==
    /\ caPc = "start"
    /\ n_channels \in ChannelCounts
    /\ framerate \in FrameRates
    /\ n_frames \in 0..MaxFrames
    /\ chunk_length_seconds \in ChunkLengths
    /\ caChunks = <<>>

\* chunk_audio is not running.
CaOff ==
    /\ caPc = "off"
    /\ n_channels = 1
    /\ framerate = 100
    /\ n_frames = 0
    /\ chunk_length_seconds = 1
    /\ caChunks = <<>>

\* chunk_audio(input_wav, chunk_length_seconds, temp_dir)
ChunkAudio ==
    /\ caPc = "start"
    /\ LET fpc == FramesPerChunk(chunk_length_seconds, framerate)
       IN  IF n_channels # 1
           THEN caPc' = "RuntimeError" /\ caChunks' = caChunks
           ELSE IF fpc <= 0
           THEN caPc' = "ValueError" /\ caChunks' = caChunks
           ELSE /\ caPc' = "done"
                /\ caChunks' = ChunkWindows(0, TotalChunks(n_frames, fpc),
                                            n_frames, fpc, framerate)
    /\ UNCHANGED <<n_channels, framerate, n_frames, chunk_length_seconds>>
    /\ UNCHANGED caFrame

CaNext == ChunkAudio

(***************************************************************************)
(* video_tools.py: the filters and the ffmpeg command of the final mux.    *)
(* The times of spans are integer milliseconds; the tokens of the command  *)
(* are strings.                                                            *)
(***************************************************************************)
MUTE_END_PADDING_MS == 150
MinToneMs == 100
SampleRate == 16000

\* f"{x:.3f}" for a time x >= 0 given in milliseconds
Format3f(ms) == ToString(ms \div 1000) \o "." \o Pad3(ms % 1000)

\* The value None of an Optional[str].
NoneStr == "None"

\* `not s` for an Optional[str]
IsFalsyStr(str) == str = NoneStr \/ str = ""

\* sep.join(parts[0..n-1])
RECURSIVE Join(_, _, _)
Join(sep, parts, n) ==
    IF n = 0 THEN ""
    ELSE IF n = 1 THEN parts[1]
    ELSE Join(sep, parts, n - 1) \o sep \o parts[n]

\* "".join(parts[0..n-1])
RECURSIVE Concat(_, _)
Concat(parts, n) == IF n = 0 THEN "" ELSE Concat(parts, n - 1) \o parts[n]

\* A seeded bug: the pad is applied at the start of the span as well.
MuteStart_Padded(span) == Max(0, span.start - MUTE_END_PADDING_MS)

\* start = max(0.0, float(span.start))
MuteStart(span) == Max(0, span.start)

\* end = max(start, float(span.end)) + MUTE_END_PADDING_SEC
MuteEnd(span) == Max(MuteStart(span), span.end) + MUTE_END_PADDING_MS

\* One part of the mute filter.
MutePart(span) ==
    "volume=enable='between(t," \o Format3f(MuteStart(span)) \o ","
    \o Format3f(MuteEnd(span)) \o ")':volume=0"

\* build_mute_filter(spans)
BuildMuteFilter(spans) ==
    IF spans = <<>> THEN NoneStr
    ELSE Join(",", [i \in DOMAIN spans |-> MutePart(spans[i])], Len(spans))

\* The two chains of the tone of span idx (idx counts from 0).
BleepChains(span, idx) ==
    LET start == Max(0, span.start)
        end == Max(start, span.end)
        duration == Max(MinToneMs, end - start)
        delay_ms == start
        tone_label == "tone" \o ToString(idx)
        beep_label == "b" \o ToString(idx)
    IN  "aevalsrc=0.5*sin(2*PI*1000*t):s=" \o ToString(SampleRate) \o ":d="
        \o Format3f(duration) \o "[" \o tone_label \o "]" \o ";"
        \o "[" \o tone_label \o "]adelay=" \o ToString(delay_ms) \o "|"
        \o ToString(delay_ms) \o "[" \o beep_label \o "]"

\* build_bleep_filter(spans)
BuildBleepFilter(spans) ==
    IF spans = <<>> THEN NoneStr
    ELSE LET n == Len(spans)
             tones == [i \in 1..n |-> BleepChains(spans[i], i - 1)]
             beep_labels == [i \in 1..n |-> "[b" \o ToString(i - 1) \o "]"]
         IN  "[0:a:0]anull[a0]" \o ";" \o Join(";", tones, n) \o ";"
             \o "[a0]" \o Concat(beep_labels, n) \o "amix=inputs="
             \o ToString(1 + n) \o ":normalize=0[aout]"

\* The codec names ffprobe may report; NoneStr when the probe gives none.
CodecNames == {NoneStr, "", "aac", "ac3", "eac3", "mp3", " AC3"}

\* codec = (codec_name or "").strip().lower()
NormalCodec(codec_name) ==
    IF codec_name = NoneStr THEN ""
    ELSE IF codec_name = " AC3" THEN "ac3"
    ELSE codec_name

\* _encoder_for_codec_name(codec_name)
EncoderForCodecName(codec_name) ==
    LET codec == NormalCodec(codec_name)
    IN  IF codec \in {"aac", "ac3", "eac3"} THEN codec ELSE "aac"

\* An Optional[int]: known is FALSE for None.
NoneInt == [known |-> FALSE, value |-> 0]
SomeInt(n) == [known |-> TRUE, value |-> n]

\* The bit rates ffprobe may report.
BitRates == {NoneInt, SomeInt(0), SomeInt(128000), SomeInt(384000)}

InputVideo == "in.mp4"
OutputVideo == "out.mp4"

\* The command that copies every stream.
CopyCmd == <<"ffmpeg", "-y", "-i", InputVideo, "-c", "copy", OutputVideo>>

\* _build_ffmpeg_censor_and_mux_cmd(input_video, output_video, spans, config,
\*                                  primary_audio_codec, primary_audio_bit_rate)
BuildFfmpegCensorAndMuxCmd(spans, md, codec, bit_rate) ==
    IF spans = <<>> THEN CopyCmd
    ELSE LET filter == IF md = "mute" THEN BuildMuteFilter(spans)
                       ELSE BuildBleepFilter(spans)
             filter_complex == IF md = "mute"
                               THEN "[0:a:0]" \o filter \o "[aout]"
                               ELSE filter
             encoder == EncoderForCodecName(codec)
         IN  IF IsFalsyStr(filter) THEN CopyCmd
             ELSE <<"ffmpeg", "-y", "-i", InputVideo,
                    "-filter_complex", filter_complex,
                    "-map", "0:v:0", "-map", "[aout]", "-map", "0:a",
                    "-map", "-0:a:0",
                    "-c:v", "copy", "-c:a", "copy", "-c:a:0", encoder>>
                  \o (IF bit_rate.known /\ bit_rate.value # 0 /\ bit_rate.value > 0
                      THEN <<"-b:a:0", ToString(bit_rate.value)>> ELSE <<>>)
                  \o <<OutputVideo>>

(***************************************************************************)
(* main.py and video_tools.py: run_pipeline, from the marker check to the  *)
(* final mux, run again on its own output.                                 *)
(***************************************************************************)
MaxRuns == 2

\* The arguments of the -map options of command c from token i on, in order.
RECURSIVE MapArgs(_, _)
MapArgs(c, i) ==
    IF i >= Len(c) THEN <<>>
    ELSE IF c[i] = "-map" THEN <<c[i + 1]>> \o MapArgs(c, i + 2)
    ELSE MapArgs(c, i + 1)

\* The command has the option.
HasOption(c, flag) == \E i \in 1..(Len(c) - 1) : c[i] = flag

\* The value of the option in the command.
OptionValue(c, flag) ==
    c[(CHOOSE i \in 1..(Len(c) - 1) :
          c[i] = flag /\ \A j \in 1..(i - 1) : c[j] # flag) + 1]

\* The specifier of input audio stream i (i counts from 1).
AudioSpecifier(i) == "0:a:" \o ToString(i - 1)

\* ffmpeg's stream selection: the audio sources the -map options from the
\* k-th on select out of n input audio streams, after the sources acc.
RECURSIVE ApplyMaps(_, _, _, _)
ApplyMaps(maps, k, n, acc) ==
    IF k > Len(maps) THEN acc
    ELSE LET m == maps[k]
         IN  ApplyMaps(maps, k + 1, n,
                 IF m = "0:a" THEN acc \o [i \in 1..n |-> AudioSpecifier(i)]
                 ELSE IF m = "-0:a:0"
                 THEN SelectSeq(acc, LAMBDA x : x # AudioSpecifier(1))
                 ELSE IF m = "0:v:0" THEN acc
                 ELSE Append(acc, m))

\* ffmpeg's codec of output audio stream k (k counts from 0).
CodecOption(c, k) ==
    IF HasOption(c, "-c:a:" \o ToString(k)) THEN OptionValue(c, "-c:a:" \o ToString(k))
    ELSE IF HasOption(c, "-c:a") THEN OptionValue(c, "-c:a")
    ELSE OptionValue(c, "-c")

\* ffmpeg's bit rate option of output audio stream k, NoneStr without one.
BitRateOption(c, k) ==
    IF HasOption(c, "-b:a:" \o ToString(k)) THEN OptionValue(c, "-b:a:" \o ToString(k))
    ELSE NoneStr

\* The title the command gives output audio stream k, "" without one.
TitleOption(c, k) ==
    IF /\ HasOption(c, "-metadata:s:a:" \o ToString(k))
       /\ OptionValue(c, "-metadata:s:a:" \o ToString(k)) = "title=Clean"
    THEN "Clean" ELSE ""

\* The output audio stream k that ffmpeg makes of source src.
OutputStream(c, k, src, input) ==
    IF src = "[aout]"
    THEN [source |-> src, title |-> TitleOption(c, k), content |-> "filtered",
          codec |-> CodecOption(c, k), bit_rate |-> BitRateOption(c, k)]
    ELSE LET i == CHOOSE j \in DOMAIN input : src = AudioSpecifier(j)
         IN  [source |-> src, title |-> input[i].title,
              content |-> input[i].content,
              codec |-> CodecOption(c, k), bit_rate |-> BitRateOption(c, k)]

\* subprocess.run(cmd): the audio streams ffmpeg may write.  Without -map
\* ffmpeg selects one of the input audio streams itself.
RunFfmpeg(c, input) ==
    IF ~HasOption(c, "-map")
    THEN {<<OutputStream(c, 0, AudioSpecifier(i), input)>> : i \in DOMAIN input}
    ELSE LET sources == ApplyMaps(MapArgs(c, 1), 1, Len(input), <<>>)
         IN  {[k \in DOMAIN sources |-> OutputStream(c, k - 1, sources[k], input)]}

\* The streams of a written file, read as the input of the next run.
AsInput(output) ==
    [k \in DOMAIN output |-> [title |-> output[k].title, content |-> output[k].content]]

\* input_has_clean_track_marker(input_path): some audio stream of the input
\* carries the title "Clean".
InputHasCleanTrackMarker(input) == \E i \in DOMAIN input : input[i].title = "Clean"

\* The audio streams of the files given to the first run.
InputAudioLists ==
    {<<[title |-> "", content |-> "original"]>>,
     <<[title |-> "", content |-> "original"],
       [title |-> "Commentary", content |-> "original"]>>,
     <<[title |-> "", content |-> "original"],
       [title |-> "Clean", content |-> "filtered"]>>}

\* A span without hits, as the tests of video_tools build them.
BareSpan(start, end) == ProfanitySpan(start, end, <<>>, HighConf)

\* The span lists the stages before the mux may produce.
SpanLists ==
    {<<>>,
     <<BareSpan(1000, 2000)>>,
     <<BareSpan(1000, 2000), BareSpan(3500, 3900)>>,
     <<BareSpan(-500, 250)>>,
     <<BareSpan(0, 0), BareSpan(59900, 61000)>>}

VtInit ==
    /\ rpPc = "start"
    /\ force \in BOOLEAN
    /\ vtMode \in {"mute", "bleep"}
    /\ inputAudio \in InputAudioLists
    /\ inputCensored = FALSE
    /\ rpSpans = <<>>
    /\ primary_audio_codec \in CodecNames
    /\ primary_audio_bit_rate \in BitRates
    /\ cmd = <<>>
    /\ outputAudio = <<>>
    /\ stagesRun = <<>>
    /\ runsLeft = MaxRuns - 1

\* run_pipeline is not running.
VtOff ==
    /\ rpPc = "off"
    /\ force = FALSE
    /\ vtMode = "mute"
    /\ inputAudio = <<>>
    /\ inputCensored = FALSE
    /\ rpSpans = <<>>
    /\ primary_audio_codec = NoneStr
    /\ primary_audio_bit_rate = NoneInt
    /\ cmd = <<>>
    /\ outputAudio = <<>>
    /\ stagesRun = <<>>
    /\ runsLeft = 0

\* What a stage of the pipeline leaves alone.
stageFrame == <<force, vtMode, inputAudio, inputCensored, primary_audio_codec,
                primary_audio_bit_rate, runsLeft>>

\* A seeded bug: the marker is ignored.
RP_Begin_NoCheck ==
    /\ rpPc = "start"
    /\ rpPc' = "extract"
    /\ UNCHANGED <<rpSpans, cmd, outputAudio, stagesRun>>
    /\ UNCHANGED stageFrame
    /\ UNCHANGED vtFrame

\* run_pipeline: the marker check.
RP_Begin ==
    /\ rpPc = "start"
    /\ rpPc' = IF ~force /\ InputHasCleanTrackMarker(inputAudio)
               THEN "skipped" ELSE "extract"
    /\ UNCHANGED <<rpSpans, cmd, outputAudio, stagesRun>>
    /\ UNCHANGED stageFrame
    /\ UNCHANGED vtFrame

\* A stage that runs at position from and leaves the pipeline at position to.
Stage(from, to, name) ==
    /\ rpPc = from
    /\ rpPc' = to
    /\ stagesRun' = Append(stagesRun, name)
    /\ UNCHANGED stageFrame
    /\ UNCHANGED vtFrame

\* extract_mono_pcm_audio(config.input_path, audio_path)
RP_Extract ==
    /\ Stage("extract", "chunk", "extract_mono_pcm_audio")
    /\ UNCHANGED <<rpSpans, cmd, outputAudio>>

\* chunk_audio(audio_path, config.chunk_length_seconds, chunks_dir)
RP_Chunk ==
    /\ Stage("chunk", "transcribe", "chunk_audio")
    /\ UNCHANGED <<rpSpans, cmd, outputAudio>>

\* transcribe_audio_chunks(chunks, config)
RP_Transcribe ==
    /\ Stage("transcribe", "detect", "transcribe_audio_chunks")
    /\ UNCHANGED <<rpSpans, cmd, outputAudio>>

\* load_profanity_terms(config); detect_profanity(...)
RP_Detect ==
    /\ Stage("detect", "merge", "detect_profanity")
    /\ UNCHANGED <<rpSpans, cmd, outputAudio>>

\* spans = merge_profanity_spans(hits, config.max_gap_combine_ms)
RP_Merge ==
    /\ Stage("merge", "artifacts", "merge_profanity_spans")
    /\ rpSpans' \in SpanLists
    /\ UNCHANGED <<cmd, outputAudio>>

\* save_transcript_json, build_censor_log, the clean transcript, the subtitles
RP_WriteArtifacts ==
    /\ Stage("artifacts", "mux", "write_artifacts")
    /\ UNCHANGED <<rpSpans, cmd, outputAudio>>

\* The command apply_audio_filters_and_mux builds: the stream is probed only
\* when there are spans.
MuxCmd ==
    BuildFfmpegCensorAndMuxCmd(
        rpSpans, vtMode,
        IF rpSpans # <<>> THEN primary_audio_codec ELSE NoneStr,
        IF rpSpans # <<>> THEN primary_audio_bit_rate ELSE NoneInt)

\* apply_audio_filters_and_mux(...): ffmpeg exits with code 0.
RP_Mux ==
    /\ Stage("mux", "done", "apply_audio_filters_and_mux")
    /\ cmd' = MuxCmd
    /\ outputAudio' \in RunFfmpeg(MuxCmd, inputAudio)
    /\ UNCHANGED rpSpans

\* apply_audio_filters_and_mux(...): ffmpeg fails and RuntimeError is raised.
RP_MuxFails ==
    /\ Stage("mux", "RuntimeError", "apply_audio_filters_and_mux")
    /\ cmd' = MuxCmd
    /\ UNCHANGED <<rpSpans, outputAudio>>

\* The codec names ffprobe may report for the first audio stream of a file
\* written as output, whose input had the primary codec name codec: that of
\* the encoder the command named for the stream or, for a copied stream, that
\* of its source.
ProbedCodecs(output, codec) ==
    IF output[1].codec # "copy" THEN {output[1].codec}
    ELSE IF output[1].source = AudioSpecifier(1) THEN {codec}
    ELSE CodecNames

\* main() is run again: on the file the pipeline wrote, or, after a skipped
\* or a failed run, on the same input.  The options --force and --mode are
\* read anew, and so is the input: ffprobe reports on the file of this run.
RP_RunAgain ==
    /\ rpPc \in {"done", "skipped", "RuntimeError"}
    /\ runsLeft > 0
    /\ runsLeft' = runsLeft - 1
    /\ rpPc' = "start"
    /\ force' \in BOOLEAN
    /\ vtMode' \in {"mute", "bleep"}
    /\ inputAudio' = IF rpPc = "done" THEN AsInput(outputAudio) ELSE inputAudio
    /\ inputCensored' = IF rpPc = "done" THEN rpSpans # <<>> ELSE inputCensored
    /\ rpSpans' = <<>>
    /\ cmd' = <<>>
    /\ outputAudio' = <<>>
    /\ stagesRun' = <<>>
    /\ IF rpPc = "done"
       THEN /\ primary_audio_codec' \in ProbedCodecs(outputAudio, primary_audio_codec)
            /\ primary_audio_bit_rate' \in BitRates
       ELSE UNCHANGED <<primary_audio_codec, primary_audio_bit_rate>>
    /\ UNCHANGED vtFrame

VtNext ==
    \/ RP_Begin
    \/ RP_Extract
    \/ RP_Chunk
    \/ RP_Transcribe
    \/ RP_Detect
    \/ RP_Merge
    \/ RP_WriteArtifacts
    \/ RP_Mux
    \/ RP_MuxFails
    \/ RP_RunAgain

(***************************************************************************)
(* transcriber.py: _parse_transcript_response.  Times are integer          *)
(* milliseconds.  A field of the response that is absent is NoneInt; one   *)
(* that is present with the value None is NoneValue, and one that is       *)
(* present with a text no number can be read from is BadText.              *)
(***************************************************************************)
MaxSegments == 2

\* A field present with the value None: float() and int() raise TypeError.
NoneValue == [known |-> FALSE, value |-> 1]

\* A field present with a text such as 'abc': float() and int() raise
\* ValueError.
BadText == [known |-> FALSE, value |-> 2]

\* A seeded bug: the chunk-relative time is kept.
AbsoluteTime_Relative(rel, chunk) == rel

\* seg_start_rel + chunk.start_time
AbsoluteTime(rel, chunk) == rel + chunk.start_time

\* float(d.get(key, default)), default when the conversion raises
FloatOr(field, default) == IF field.known THEN field.value ELSE default

\* What int(seg.get("id", position)) raises, the call being outside any try:
\* nothing ("") when the id is absent or a number.
IdError(seg) ==
    IF seg.id = NoneValue THEN "TypeError"
    ELSE IF seg.id = BadText THEN "ValueError"
    ELSE ""

\* words_out and confidences for the words n.. of words_data
RECURSIVE ParseWords(_, _, _, _)
ParseWords(words_data, n, seg_start_rel, chunk) ==
    IF n > Len(words_data) THEN <<>>
    ELSE LET w == words_data[n]
             w_text == Strip(w.word)
             w_start_rel == FloatOr(w.start, seg_start_rel)
             w_end_rel == FloatOr(w.end, w_start_rel)
         IN (IF w_text = <<>> THEN <<>>
             ELSE <<[word |-> w_text,
                     start |-> AbsoluteTime(w_start_rel, chunk),
                     end |-> AbsoluteTime(w_end_rel, chunk),
                     confidence |-> FloatOr(w.confidence, 100)]>>)
            \o ParseWords(words_data, n + 1, seg_start_rel, chunk)

\* One TranscriptSegment: seg is the response's segment, whose id is absent
\* or a number (IdError(seg) = ""), and position the number of segments
\* produced before it.
ParseSegment(seg, position, chunk, chunk_index) ==
    LET seg_start_rel == FloatOr(seg.start, 0)
        seg_end_rel == FloatOr(seg.end, seg_start_rel)
        words_out == ParseWords(seg.words, 1, seg_start_rel, chunk)
    IN [id |-> FloatOr(seg.id, position),
        start |-> AbsoluteTime(seg_start_rel, chunk),
        end |-> AbsoluteTime(seg_end_rel, chunk),
        text |-> Strip(seg.text),
        words |-> words_out,
        avg_confidence |-> IF words_out # <<>>
                           THEN Fraction(SumConfidence(words_out), Len(words_out))
                           ELSE Fraction(FloatOr(seg.confidence, 100), 1),
        chunk_index |-> chunk_index]

\* segments_out, when no segment raises
ParseSegments(segments_data, chunk, chunk_index) ==
    [k \in DOMAIN segments_data |->
        ParseSegment(segments_data[k], k - 1, chunk, chunk_index)]

\* The exception that ends the loop over the segments k.. of the response:
\* that of the first segment whose id cannot be converted, "" if there is none.
RECURSIVE FirstIdError(_, _)
FirstIdError(segments_data, k) ==
    IF k > Len(segments_data) THEN ""
    ELSE IF IdError(segments_data[k]) # "" THEN IdError(segments_data[k])
    ELSE FirstIdError(segments_data, k + 1)

\* The words of a response: "hello" from 500 ms to 900 ms, a blank word, and
\* "world" with an end that is no number and a confidence of None.
Hello == <<"h", "e", "l", "l", "o">>
World == <<" ", "w", "o", "r", "l", "d">>

RawWord(word, start, end, confidence) ==
    [word |-> word, start |-> start, end |-> end, confidence |-> confidence]

RawWordLists ==
    {<<>>,
     <<RawWord(Hello, SomeInt(500), SomeInt(900), SomeInt(90))>>,
     <<RawWord(<<" ">>, SomeInt(900), SomeInt(1000), SomeInt(90)),
       RawWord(World, SomeInt(1000), BadText, NoneValue),
       RawWord(Hello, NoneInt, SomeInt(1500), SomeInt(70))>>}

RawSegments ==
    {[id |-> id, start |-> start, end |-> end, text |-> Hello \o World,
      confidence |-> SomeInt(80), words |-> ws] :
        id \in {NoneInt, SomeInt(7), NoneValue, BadText},
        start \in {NoneInt, SomeInt(500)},
        end \in {NoneInt, SomeInt(1500)}, ws \in RawWordLists}

\* The chunks: chunk_audio gives chunk i a start_time of i * chunk_length.
PrChunks == {[index |-> i, start_time |-> i * 10000] : i \in 0..1}

PrInit ==
    /\ prPc = "start"
    /\ prRaw \in [language : {"None", "en"},
                  segments : UNION {[1..n -> RawSegments] : n \in 0..MaxSegments}]
    /\ prChunk \in PrChunks
    /\ prLanguage = ""
    /\ prSegments = <<>>

\* _parse_transcript_response is not running.
PrOff ==
    /\ prPc = "off"
    /\ prRaw = [language |-> "None", segments |-> <<>>]
    /\ prChunk = [index |-> 0, start_time |-> 0]
    /\ prLanguage = ""
    /\ prSegments = <<>>

\* language, segments = _parse_transcript_response(raw, chunk, chunk.index),
\* as transcribe_chunk calls it: the call returns, or an id that cannot be
\* converted raises out of it and nothing is returned.
ParseTranscriptResponse ==
    /\ prPc = "start"
    /\ LET error == FirstIdError(prRaw.segments, 1) IN
          IF error = ""
          THEN /\ prPc' = "done"
               /\ prLanguage' = ParsedLanguage(prRaw.language)
               /\ prSegments' = ParseSegments(prRaw.segments, prChunk, prChunk.index)
          ELSE /\ prPc' = error
               /\ UNCHANGED <<prLanguage, prSegments>>
    /\ UNCHANGED <<prRaw, prChunk>>
    /\ UNCHANGED prFrame

PrNext == ParseTranscriptResponse

(***************************************************************************)
(* profanity_detector.py: _format_srt_timestamp.  The time t is a whole    *)
(* number of ticks, TicksPerMs ticks to the millisecond; TicksPerMs is odd *)
(* so that no time lies halfway between two milliseconds.                  *)
(***************************************************************************)
TicksPerMs == 5
TsWindow == 5

TicksPerSecond == 1000 * TicksPerMs

\* f"{n:02d}"
Pad2(n) == IF n < 10 THEN "0" \o ToString(n) ELSE ToString(n)

\* int(round(x * 1000)) for a fraction x of a second given in ticks
RoundToMillis(ticks) ==
    (ticks \div TicksPerMs) + (IF 2 * (ticks % TicksPerMs) >= TicksPerMs THEN 1 ELSE 0)

\* f"{hours:02d}:{minutes:02d}:{seconds:02d},{millis:03d}"
SrtText(hours, minutes, seconds, millis) ==
    Pad2(hours) \o ":" \o Pad2(minutes) \o ":" \o Pad2(seconds) \o "," \o Pad3(millis)

\* _format_srt_timestamp(t)
FormatSrtTimestamp(t) ==
    LET t0 == IF t < 0 THEN 0 ELSE t
        whole == t0 \div TicksPerSecond
        hours == whole \div 3600
        minutes == (whole % 3600) \div 60
        seconds == whole % 60
        millis == RoundToMillis(t0 - whole * TicksPerSecond)
    IN SrtText(hours, minutes, seconds, millis)

\* The times, in seconds, around which t is taken.
TsBases == {0, 1, 59, 60, 61, 3599, 3600, 359999}

\* The times: within TsWindow ticks of a base, or some tenths of a second
\* past one.
TsTimes ==
    {b * TicksPerSecond + d : b \in TsBases, d \in (-TsWindow)..TsWindow}
    \cup {b * TicksPerSecond + k * 100 * TicksPerMs : b \in TsBases, k \in 1..9}

TsInit ==
    /\ tsPc = "start"
    /\ tsTime \in TsTimes
    /\ tsText = ""

\* start_ts = _format_srt_timestamp(span.start), as build_subtitles calls it
FormatTimestamp_Call ==
    /\ tsPc = "start"
    /\ tsPc' = "done"
    /\ tsText' = FormatSrtTimestamp(tsTime)
    /\ UNCHANGED tsTime
    /\ UNCHANGED tsFrame

TsNext == FormatTimestamp_Call

\* _format_srt_timestamp is not running.
TsOff ==
    /\ tsPc = "off"
    /\ tsTime = 0
    /\ tsText = ""

(***************************************************************************)
(* transcription_backends/openai_api.py: get_client, called by every       *)
(* transcribe_audio of the remote backend from the workers of the pool.    *)
(* The module takes no lock: the test of _client, the construction and the *)
(* return are separate steps of a worker.                                  *)
(***************************************************************************)
GcInit ==
    /\ gcPc = [t \in Threads |-> "idle"]
    /\ client = 0
    /\ clientsMade = 0
    /\ gcGot = [t \in Threads |-> 0]
    /\ gcCallsLeft = MaxCalls

\* A worker calls get_client().
GC_Call(t) ==
    /\ gcPc[t] = "idle"
    /\ gcCallsLeft > 0
    /\ gcCallsLeft' = gcCallsLeft - 1
    /\ gcPc' = [gcPc EXCEPT ![t] = "check"]
    /\ UNCHANGED <<client, clientsMade, gcGot>>
    /\ UNCHANGED gcFrame

\* if _client is None:
GC_Check(t) ==
    /\ gcPc[t] = "check"
    /\ gcPc' = [gcPc EXCEPT ![t] = IF client = 0 THEN "dotenv" ELSE "return"]
    /\ UNCHANGED <<client, clientsMade, gcGot, gcCallsLeft>>
    /\ UNCHANGED gcFrame

\* load_dotenv()
GC_LoadDotenv(t) ==
    /\ gcPc[t] = "dotenv"
    /\ gcPc' = [gcPc EXCEPT ![t] = "create"]
    /\ UNCHANGED <<client, clientsMade, gcGot, gcCallsLeft>>
    /\ UNCHANGED gcFrame

\* _client = OpenAI()
GC_Create(t) ==
    /\ gcPc[t] = "create"
    /\ clientsMade' = clientsMade + 1
    /\ client' = clientsMade + 1
    /\ gcPc' = [gcPc EXCEPT ![t] = "return"]
    /\ UNCHANGED <<gcGot, gcCallsLeft>>
    /\ UNCHANGED gcFrame

\* return _client
GC_Return(t) ==
    /\ gcPc[t] = "return"
    /\ gcGot' = [gcGot EXCEPT ![t] = client]
    /\ gcPc' = [gcPc EXCEPT ![t] = "idle"]
    /\ UNCHANGED <<client, clientsMade, gcCallsLeft>>
    /\ UNCHANGED gcFrame

GcNext ==
    \E t \in Threads :
        \/ GC_Call(t)
        \/ GC_Check(t)
        \/ GC_LoadDotenv(t)
        \/ GC_Create(t)
        \/ GC_Return(t)

\* get_client is not running.
GcOff ==
    /\ gcPc = [t \in Threads |-> "off"]
    /\ client = 0
    /\ clientsMade = 0
    /\ gcGot = [t \in Threads |-> 0]
    /\ gcCallsLeft = 0

(***************************************************************************)
(* The specifications: one per part of the program, the other parts idle.  *)
(***************************************************************************)
\* The span merger, the chunker and the pipeline are idle.
RestOff == MpOff /\ CaOff /\ VtOff

InitLW == LwInit /\ TcOff /\ AggOff /\ DpOff /\ RestOff
          /\ PrOff /\ TsOff /\ GcOff

SpecLW == InitLW /\ [][LwNext]_vars

InitTC == TcInit /\ LwInit /\ AggOff /\ DpOff /\ RestOff
          /\ PrOff /\ TsOff /\ GcOff

SpecTC == InitTC /\ [][TcNext]_vars

InitAgg == AggInit /\ LwInit /\ TcOff /\ DpOff /\ RestOff
           /\ PrOff /\ TsOff /\ GcOff

SpecAgg == InitAgg /\ [][AggNext]_vars

InitDP == DpInit /\ LwInit /\ TcOff /\ AggOff /\ RestOff
          /\ PrOff /\ TsOff /\ GcOff

SpecDP == InitDP /\ [][DpNext]_vars

InitMP == MpInit /\ LwInit /\ TcOff /\ AggOff /\ DpOff /\ CaOff /\ VtOff
          /\ PrOff /\ TsOff /\ GcOff

SpecMP == InitMP /\ [][MpNext]_vars

InitCA == CaInit /\ LwInit /\ TcOff /\ AggOff /\ DpOff /\ MpOff /\ VtOff
          /\ PrOff /\ TsOff /\ GcOff

SpecCA == InitCA /\ [][CaNext]_vars

InitVT == VtInit /\ LwInit /\ TcOff /\ AggOff /\ DpOff /\ MpOff /\ CaOff
          /\ PrOff /\ TsOff /\ GcOff

SpecVT == InitVT /\ [][VtNext]_vars

InitPR == PrInit /\ LwInit /\ TcOff /\ AggOff /\ DpOff /\ RestOff
          /\ TsOff /\ GcOff

SpecPR == InitPR /\ [][PrNext]_vars

InitTS == TsInit /\ LwInit /\ TcOff /\ AggOff /\ DpOff /\ RestOff
          /\ PrOff /\ GcOff

SpecTS == InitTS /\ [][TsNext]_vars

InitGC == GcInit /\ LwInit /\ TcOff /\ AggOff /\ DpOff /\ RestOff
          /\ PrOff /\ TsOff

SpecGC == InitGC /\ [][GcNext]_vars

(***************************************************************************)
(* transcribe_audio_chunks over the local backend: worker w of the pool is *)
(* thread w of local_whisper.  While it runs transcribe_chunk it makes the *)
(* backend calls of the retry loops, a bounded number of them (callsLeft), *)
(* and transcribe_chunk returns or raises between two calls.               *)
(***************************************************************************)
\* The chunk results of the runs with both parts: a failure, or a result
\* with one segment.
LiveOutcomes(c) ==
    {o \in ChunkOutcomes(c) :
        o.language \in {"", "en"} /\ Len(o.segments) = IF o.ok THEN 1 ELSE 0}

InitLive ==
    /\ AggInit /\ LwInit /\ TcOff /\ DpOff /\ RestOff /\ PrOff /\ TsOff /\ GcOff
    /\ \A p \in DOMAIN chunks : chunkOutcome[p] \in LiveOutcomes(chunks[p])

\* Worker w, running transcribe_chunk, calls transcribe_audio of the backend.
Live_StartCall(w) ==
    /\ running[w] # 0
    /\ \E name \in {Base, Tiny} : StartCall(w, name)

\* transcribe_chunk returns or raises in worker w: no backend call is under
\* way in it.
Live_Finish(w) ==
    /\ lwPc[w] \in {"idle", "raised"}
    /\ Worker_Finish(w)

LiveNext ==
    \/ Agg_Submit
    \/ Agg_StartCollect
    \/ \E w \in Threads : Worker_Take(w)
    \/ \E w \in Threads : Live_StartCall(w)
    \/ \E w \in Threads : LwStepOf(w)
    \/ \E w \in Threads : Live_Finish(w)
    \/ \E p \in DOMAIN chunks : Agg_Collect(p)
    \/ Agg_Return

\* The main thread and the workers keep running, a lock that is free is
\* granted to a thread that waits for it, and every backend call (a model
\* load, an inference) eventually returns or raises.
LiveFairness ==
    /\ WF_vars(Agg_Submit)
    /\ WF_vars(Agg_StartCollect)
    /\ WF_vars(Agg_Return)
    /\ \A w \in Threads : WF_vars(Worker_Take(w))
    /\ \A w \in Threads : WF_vars(LwStepOf(w))
    /\ \A w \in Threads : WF_vars(Live_Finish(w))
    /\ \A p \in 1..MaxChunks : WF_vars(Agg_Collect(p))

SpecLive == InitLive /\ [][LiveNext]_vars /\ LiveFairness


\* The calls of mdl.transcribe in flight on the model registered under key k.
InFlight(k) == {t \in Threads : lwPc[t] = "infer" /\ ModelKey(lwArg[t]) = k}

\* C1: for every model name, whatever the number of threads calling
\* transcribe_audio with it, at most one call of that model's transcribe
\* is in flight at any time (per name and per loaded instance).
C1_OneInferencePerModel ==
    /\ \A k \in ModelKeys : Cardinality(InFlight(k)) <= 1
    /\ \A t1, t2 \in Threads :
           (lwPc[t1] = "infer" /\ lwPc[t2] = "infer" /\ lwMdl[t1] = lwMdl[t2])
               => t1 = t2

\* Two threads are inside transcribe_audio with names of the same model:
\* one runs the inference and the other waits for the per-model lock.
C1_Witness ==
    \E t1, t2 \in Threads :
        /\ t1 # t2
        /\ lwArg[t1] # lwArg[t2]
        /\ ModelKey(lwArg[t1]) = ModelKey(lwArg[t2])
        /\ lwPc[t1] = "infer"
        /\ lwPc[t2] = "tl_acq"
        /\ lwLock[t1] = lwLock[t2]

\* C7: under any interleaving a model name is loaded successfully at most
\* once, load_model is invoked at most once for a name whose load does not
\* fail, and every call for the name holds the one cached instance.
C7_LoadedOnce ==
    /\ \A k \in ModelKeys :
           /\ loadCalls[k] - loadFails[k] <= 1
           /\ loadFails[k] = 0 => loadCalls[k] <= 1
    /\ \A t \in Threads :
           lwMdl[t] # 0 => lwMdl[t] = local_whisper_models[ModelKey(lwArg[t])]

\* Two threads hold the same instance of a model that was loaded once, after
\* both went through _get_local_whisper_model.
C7_Witness ==
    \E t1, t2 \in Threads :
        /\ t1 # t2
        /\ lwMdl[t1] # 0
        /\ lwMdl[t1] = lwMdl[t2]
        /\ ModelKey(lwArg[t1]) = ModelKey(lwArg[t2])
        /\ loadCalls[ModelKey(lwArg[t1])] = 1
        /\ lwPc[t1] \in {"gl_acq", "gl_get", "tl_acq", "infer"}
        /\ lwPc[t2] \in {"gl_acq", "gl_get", "tl_acq", "infer"}

\* The calls made in the round of models_to_try[idx].
CallsOfRound(idx) == {i \in DOMAIN tcLog : tcLog[i].idx = idx}

\* C4: the backend is called with the primary model at most max_retries
\* times, then with the fallback model at most max_retries times (at most
\* 2*max_retries calls, every primary call before every fallback call), and
\* a response with a known language ends the loop: it is the last call and
\* its result is the one returned.
C4_RetryBudget ==
    /\ Cardinality(CallsOfRound(1)) <= max_retries
    /\ Cardinality(CallsOfRound(2)) <= max_retries
    /\ Len(tcLog) <= 2 * max_retries
    /\ \A i \in CallsOfRound(1) : \A j \in CallsOfRound(2) : i < j
    /\ \A i \in CallsOfRound(1) :
           tcLog[i].model =
               NormalizeModelForBackend(
                   EffectivePrimary(tcPrimaryArg, tcConfigured), tcBackend)
    /\ \A i \in CallsOfRound(2) :
           tcLog[i].model =
               NormalizeModelForBackend(
                   EffectiveFallback(tcFallbackArg, tcPrimaryArg, tcConfigured),
                   tcBackend)
    /\ \A i \in DOMAIN tcLog :
           tcLog[i].out \notin {"raise", "unknown"} =>
               /\ i = Len(tcLog)
               /\ tcPc = "returned"
               /\ tcResult = [language |-> tcLog[i].out, call |-> i]

\* Every primary attempt raised, and the last attempt of the fallback model,
\* a different model, returned a response with a known language.
C4_Witness ==
    /\ max_retries >= 2
    /\ Len(tcLog) = 2 * max_retries
    /\ models_to_try[1] # models_to_try[2]
    /\ tcPc = "returned"
    /\ tcResult.language = "en"
    /\ tcResult.call = Len(tcLog)

\* The step in which a response of the primary round reports language
\* "unknown".
PrimaryUnknownStep ==
    /\ tcPc = "attempt"
    /\ tcIdx = 1
    /\ Len(tcLog') = Len(tcLog) + 1
    /\ tcLog'[Len(tcLog')].out = "unknown"

\* C5 as stated: after a response of the primary model that reports language
\* "unknown", no further attempt is made with the primary model and the next
\* attempt is the first of max_retries attempts with the fallback model.
C5_AsStated ==
    [][PrimaryUnknownStep =>
          /\ tcPc' = "attempt"
          /\ tcIdx' = 2
          /\ tcAttempt' = 1]_vars

\* C5, amended: after a response of the primary model that reports language
\* "unknown", the primary round is over; when the fallback_model argument
\* equals the primary model name that response is returned at once, and
\* otherwise the next attempt is the first of max_retries attempts with the
\* fallback model (the primary model itself when no fallback was given).
C5_UnknownFallsThrough ==
    [][/\ tcIdx' >= tcIdx
       /\ PrimaryUnknownStep =>
             IF models_to_try[1] = tcFallbackArg
             THEN /\ tcPc' = "returned"
                  /\ tcResult' = [language |-> "unknown", call |-> Len(tcLog')]
             ELSE /\ tcPc' = "attempt"
                  /\ tcIdx' = 2
                  /\ tcAttempt' = 1
                  /\ models_to_try[2] =
                         NormalizeModelForBackend(
                             IF tcFallbackArg = None
                             THEN EffectivePrimary(tcPrimaryArg, tcConfigured)
                             ELSE tcFallbackArg,
                             tcBackend)]_vars

\* With no fallback model given, the primary model reported "unknown" and
\* the same model then used its own full budget of max_retries attempts.
C5_Witness ==
    /\ tcFallbackArg = None
    /\ max_retries >= 2
    /\ \E i \in CallsOfRound(1) : tcLog[i].out = "unknown"
    /\ Cardinality(CallsOfRound(2)) = max_retries
    /\ models_to_try[1] = models_to_try[2]

\* C6: whenever transcribe_chunk fails (max_retries >= 1), the budget of the
\* fallback model has been used up by attempts that raised, and the error
\* raised carries the last underlying backend error (last_err is not None).
C6_FailureCarriesError ==
    (tcPc = "failed" /\ max_retries >= 1) =>
        /\ Cardinality({i \in CallsOfRound(2) : tcLog[i].out = "raise"}) = max_retries
        /\ last_err # 0
        /\ tcLog[last_err].out = "raise"
        /\ \A i \in DOMAIN tcLog : tcLog[i].out = "raise" => i <= last_err

\* How often x occurs in the sequence s.
Occurrences(x, s) == Cardinality({i \in DOMAIN s : s[i] = x})

\* The segments of the first n chunks whose transcription succeeded, chunk
\* after chunk.
RECURSIVE SucceededSegments(_)
SucceededSegments(n) ==
    IF n = 0 THEN <<>>
    ELSE SucceededSegments(n - 1) \o
         (IF chunkOutcome[n].ok THEN chunkOutcome[n].segments ELSE <<>>)

\* C2: a chunk whose transcription fails is caught and only it is excluded:
\* the call never raises, every chunk is run to completion and collected,
\* exactly the failing chunks are logged, and the returned segments are
\* exactly (as a multiset) the segments of the chunks that succeeded.
C2_FailureIsolated ==
    /\ aggPc # "raised"
    /\ aggPc = "done" =>
          LET expected == SucceededSegments(Len(chunks)) IN
          /\ finished = DOMAIN chunks
          /\ {collected[i] : i \in DOMAIN collected} = DOMAIN chunks
          /\ \A p \in DOMAIN chunks :
                 Occurrences(chunks[p].index, failedLog) =
                     (IF chunkOutcome[p].ok THEN 0 ELSE 1)
          /\ Len(aggResult.segments) = Len(expected)
          /\ \A i \in DOMAIN expected :
                 Occurrences(expected[i], aggResult.segments) =
                     Occurrences(expected[i], expected)

\* The call returned after a failed chunk was collected before a chunk that
\* succeeded with segments.
C2_Witness ==
    /\ aggPc = "done"
    /\ aggResult.segments # <<>>
    /\ \E i, j \in DOMAIN collected :
          /\ i < j
          /\ ~chunkOutcome[collected[i]].ok
          /\ chunkOutcome[collected[j]].segments # <<>>

\* a precedes-or-equals b in the order (start, chunk_index, id).
KeyOrdered(a, b) ==
    \/ a.start < b.start
    \/ a.start = b.start /\ a.chunk_index < b.chunk_index
    \/ a.start = b.start /\ a.chunk_index = b.chunk_index /\ a.id <= b.id

\* C3: the returned segment list is sorted by (start, chunk_index, id), and
\* for fixed per-chunk results it is one list, whatever the order in which
\* the workers complete: the stable sort of the segments taken chunk by chunk.
C3_SortedDeterministic ==
    aggPc = "done" =>
        /\ \A i, j \in DOMAIN aggResult.segments :
               i < j => KeyOrdered(aggResult.segments[i], aggResult.segments[j])
        /\ aggResult.segments = SortSegments(SucceededSegments(Len(chunks)))

\* The call returned after a later chunk was collected before an earlier
\* one, both with segments, and two segments of different chunks start at the
\* same time.
C3_Witness ==
    /\ aggPc = "done"
    /\ \E i, j \in DOMAIN collected :
          /\ i < j
          /\ collected[i] > collected[j]
          /\ Len(chunkOutcome[collected[i]].segments) >= 1
          /\ Len(chunkOutcome[collected[j]].segments) >= 2
    /\ \E i, j \in DOMAIN aggResult.segments :
          /\ aggResult.segments[i].start = aggResult.segments[j].start
          /\ aggResult.segments[i].chunk_index < aggResult.segments[j].chunk_index

\* The places in `hits` of the hits that segment seg produced.
HitsOf(seg) ==
    {j \in DOMAIN hits :
        hits[j].segment_id = seg.id /\ hits[j].chunk_index = seg.chunk_index}

\* The places in `hits` of the hits of seg at the timing of its word w.
HitsAt(seg, w) ==
    {j \in HitsOf(seg) : hits[j].start = w.start /\ hits[j].end = w.end}

\* The tokens of text: its maximal runs of word characters, in order.
RECURSIVE Tokens(_, _)
Tokens(text, run) ==
    IF text = <<>> THEN (IF run = <<>> THEN <<>> ELSE <<run>>)
    ELSE IF IsWordChar(Head(text)) THEN Tokens(Tail(text), Append(run, Head(text)))
    ELSE (IF run = <<>> THEN <<>> ELSE <<run>>) \o Tokens(Tail(text), <<>>)

\* Whether t occurs in s without being all of s.
StrictlyInside(t, s) ==
    /\ Len(t) < Len(s)
    /\ \E i \in 1..(Len(s) - Len(t) + 1) : SubSeq(s, i, i + Len(t) - 1) = t

\* C8: no hit is emitted for a term that occurs only as a strict substring of
\* a longer token.  In a segment with word timings every hit sits on a word
\* whose normalised form equals a term exactly, and a word that merely
\* contains a term gets none; in a segment without them a hit names a term
\* that is one of the tokens of the text.  "classy ass move" with the single
\* term "ass" yields exactly one hit, for the word "ass".
C8_WordBoundary ==
    dpPc = "done" =>
        \A k \in DOMAIN dpSegments :
            LET seg == dpSegments[k] IN
            /\ seg.words # <<>> =>
                  /\ \A j \in HitsOf(seg) :
                         \E i \in DOMAIN seg.words :
                             /\ j \in HitsAt(seg, seg.words[i])
                             /\ hits[j].word = TokenNormalize(seg.words[i].word)
                             /\ hits[j].word \in TermTexts
                  /\ \A i \in DOMAIN seg.words :
                         (/\ TokenNormalize(seg.words[i].word) \notin TermTexts
                          /\ \E t \in TermTexts :
                                 StrictlyInside(t, Lower(seg.words[i].word)))
                             => HitsAt(seg, seg.words[i]) = {}
            /\ seg.words = <<>> =>
                  \A j \in HitsOf(seg) :
                      /\ hits[j].word \in TermTexts
                      /\ \E n \in DOMAIN Tokens(Lower(seg.text), <<>>) :
                             Tokens(Lower(seg.text), <<>>)[n] = hits[j].word
            /\ (/\ seg.words # <<>>
                /\ [i \in DOMAIN seg.words |-> seg.words[i].word] = <<Classy, Ass, Move>>
                /\ dpTerms = <<Ass>>
                /\ WordPasses(seg.words[Len(<<Classy, Ass>>)].confidence))
                   => /\ Cardinality(HitsOf(seg)) = 1
                      /\ \A j \in HitsOf(seg) : hits[j].word = Ass

\* detect_profanity ran on "classy ass move" (with word timings) and the
\* single term "ass", and returned its one hit.
C8_Witness ==
    /\ dpPc = "done"
    /\ dpTerms = <<Ass>>
    /\ Len(dpSegments) = 1
    /\ dpSegments[1].text = Classy \o <<" ">> \o Ass \o <<" ">> \o Move
    /\ Len(dpSegments[1].words) = Len(<<Classy, Ass, Move>>)
    /\ Len(hits) = 1
    /\ hits[1].word = Ass

\* C9: a word with timings that matches a term yields one hit, at its start
\* and end and with its confidence, when its confidence is at least
\* min_confidence (in either mode) or when the mode is "mute"; with a
\* confidence below min_confidence it yields no hit in mode "bleep".
C9_ConfidenceGate ==
    (dpPc = "done" /\ dpTerms # <<>>) =>
        \A k \in DOMAIN dpSegments :
            \A i \in DOMAIN dpSegments[k].words :
                LET seg == dpSegments[k]
                    w == seg.words[i]
                IN TokenNormalize(w.word) \in TermTexts =>
                       /\ Cardinality(HitsAt(seg, w)) =
                              (IF w.confidence >= min_confidence \/ mode = "mute"
                               THEN 1 ELSE 0)
                       /\ \A j \in HitsAt(seg, w) : hits[j].confidence = w.confidence

\* In mode "mute" a matching word below min_confidence was kept as a hit.
C9_Witness ==
    /\ dpPc = "done"
    /\ mode = "mute"
    /\ \E k \in DOMAIN dpSegments :
          \E i \in DOMAIN dpSegments[k].words :
              LET w == dpSegments[k].words[i] IN
              /\ TokenNormalize(w.word) \in TermTexts
              /\ w.confidence < min_confidence
              /\ HitsAt(dpSegments[k], w) # {}

\* How many of the tokens are the term.
TokenCount(term, tokens) == Cardinality({n \in DOMAIN tokens : tokens[n] = term})

\* The sum of the token counts of the terms k.. of profanity_terms.
RECURSIVE TotalTokenCount(_, _)
TotalTokenCount(tokens, k) ==
    IF k > Len(dpTerms) THEN 0
    ELSE TokenCount(dpTerms[k], tokens) + TotalTokenCount(tokens, k + 1)

\* C10: the segment-level path is taken exactly for the segments without
\* word timings.  Such a segment gets one hit per term occurrence, each
\* spanning the segment (its start and end) with the segment's average
\* confidence, and none at all when that confidence is below min_confidence,
\* in mode "mute" as in mode "bleep"; a segment with word timings gets no
\* hit that spans the segment.
C10_SegmentFallback ==
    (dpPc = "done" /\ dpTerms # <<>>) =>
        \A k \in DOMAIN dpSegments :
            LET seg == dpSegments[k] IN
            /\ seg.words = <<>> =>
                  /\ \A j \in HitsOf(seg) :
                         /\ hits[j].start = seg.start
                         /\ hits[j].end = seg.end
                         /\ hits[j].confidence = Percent(seg.avg_confidence)
                  /\ Cardinality(HitsOf(seg)) =
                         (IF Percent(seg.avg_confidence) < min_confidence THEN 0
                          ELSE TotalTokenCount(Tokens(Lower(seg.text), <<>>), 1))
            /\ seg.words # <<>> =>
                  \A j \in HitsOf(seg) :
                      ~(hits[j].start = seg.start /\ hits[j].end = seg.end)

\* In mode "mute" a segment without word timings whose text holds a term was
\* dropped for its low average confidence, while a word-level hit was kept.
C10_Witness ==
    /\ dpPc = "done"
    /\ mode = "mute"
    /\ \E k \in DOMAIN dpSegments :
          LET seg == dpSegments[k] IN
          /\ seg.words = <<>>
          /\ Percent(seg.avg_confidence) < min_confidence
          /\ TotalTokenCount(Tokens(Lower(seg.text), <<>>), 1) > 0
          /\ HitsOf(seg) = {}


\* C11 as stated: a call of detect_profanity with an empty term list fails
\* with an invalid-input error, so it never returns a result.
C11_AsStated == ~(dpPc = "done" /\ dpTerms = <<>>)

\* C11, amended: a call of detect_profanity with an empty term list does not
\* fail; it returns, and the list of hits it returns is empty.
C11_EmptyTermsReturnEmpty ==
    dpTerms = <<>> => dpPc \in {"start", "done", "merged", "cleaned"} /\ hits = <<>>

\* detect_profanity has returned from a call with no terms, on a transcript
\* whose first segment carries the word "ass" with timing.
C11_Witness ==
    /\ dpPc = "done"
    /\ dpTerms = <<>>
    /\ hits = <<>>
    /\ \E i \in DOMAIN dpSegments[1].words :
          TokenNormalize(dpSegments[1].words[i].word) = Ass


\* The hit sequence is sorted by (start, end).
SortedHits(hs) == \A i, j \in DOMAIN hs : i < j => ~HitKeyLess(hs[j], hs[i])

\* C12: for every hit sequence sorted by (start, end) and every max_gap_ms,
\* each span merge_profanity_spans returns starts at the least start of its
\* hits and ends at the greatest end of its hits.
C12_SpanBounds ==
    (mpPc = "done" /\ SortedHits(mpHits)) =>
        \A k \in DOMAIN merged :
            LET sp == merged[k]
            IN  /\ sp.hits # <<>>
                /\ \E i \in DOMAIN sp.hits : sp.hits[i].start = sp.start
                /\ \A i \in DOMAIN sp.hits : sp.start <= sp.hits[i].start
                /\ \E i \in DOMAIN sp.hits : sp.hits[i].end = sp.end
                /\ \A i \in DOMAIN sp.hits : sp.hits[i].end <= sp.end

\* A sorted sequence was merged into a span whose last hit ends before the
\* span does.
C12_Witness ==
    /\ mpPc = "done"
    /\ SortedHits(mpHits)
    /\ \E k \in DOMAIN merged :
          /\ Len(merged[k].hits) >= 2
          /\ merged[k].hits[Len(merged[k].hits)].end < merged[k].end

\* The hits [1.0,1.2], [1.25,1.4], [5.0,5.2].
ExampleHits ==
    <<MergeHit(1000, 1200, HighConf), MergeHit(1250, 1400, HighConf),
      MergeHit(5000, 5200, HighConf)>>

\* The doubles that hold a ms and b ms, in seconds, are more than g / 1000
\* seconds apart as real numbers: a - b > g, or a - b = g and the rounding
\* error of the first double exceeds that of the second.
MoreApart(a, b, g) ==
    \/ a - b > g
    \/ /\ a - b = g
       /\ LET K == Max(MantissaShift(a), MantissaShift(b))
              scaled(t) == IF t = 0 THEN 0
                           ELSE FloatError(t) * 2^(K - MantissaShift(t))
          IN  scaled(a) > scaled(b)

\* C13: for every hit sequence sorted by (start, end) and every
\* max_gap_ms >= 0, the spans returned are sorted by start, pairwise
\* non-overlapping, and each starts more than max_gap_ms / 1000 seconds after
\* the end of the span before it, the times being the doubles the spans
\* hold; the hits [1.0,1.2], [1.25,1.4], [5.0,5.2] with max_gap_ms = 500 give
\* the spans [1.0,1.4] and [5.0,5.2].
C13_SpansApart ==
    (mpPc = "done" /\ SortedHits(mpHits) /\ max_gap_ms >= 0) =>
        /\ \A j, k \in DOMAIN merged :
              j < k => /\ merged[j].start < merged[k].start
                       /\ merged[j].end < merged[k].start
        /\ \A k \in 1..(Len(merged) - 1) :
              MoreApart(merged[k + 1].start, merged[k].end, max_gap_ms)
        /\ (mpHits = ExampleHits /\ max_gap_ms = 500) =>
              /\ Len(merged) = 2
              /\ merged[1].start = 1000 /\ merged[1].end = 1400
              /\ merged[2].start = 5000 /\ merged[2].end = 5200

\* The example of the claim was merged with max_gap_ms = 500.
C13_Witness ==
    /\ mpPc = "done"
    /\ mpHits = ExampleHits
    /\ max_gap_ms = 500
    /\ Len(merged) = 2

\* C14 as stated: for all hit sequences and gaps g1 < g2, the merge with g1
\* never gives more spans than the merge with g2.
C14_AsStated ==
    mpPc = "done" =>
        \A g2 \in Gaps :
            max_gap_ms < g2 =>
                Len(merged) <= Len(MergeProfanitySpans(mpHits, g2))

\* C14, amended: for all hit sequences and gaps g1 < g2, the merge with the
\* larger gap g2 never gives more spans than the merge with g1.
C14_LargerGapFewerSpans ==
    mpPc = "done" =>
        \A g2 \in Gaps :
            max_gap_ms < g2 =>
                Len(MergeProfanitySpans(mpHits, g2)) <= Len(merged)

\* A sequence was merged into several spans that a larger gap merges into
\* fewer.
C14_Witness ==
    /\ mpPc = "done"
    /\ Len(merged) >= 2
    /\ \E g2 \in Gaps :
          /\ max_gap_ms < g2
          /\ Len(MergeProfanitySpans(mpHits, g2)) < Len(merged)

\* The hit lists of the first n spans, one after the other.
RECURSIVE SpanHits(_, _)
SpanHits(spans, n) ==
    IF n = 0 THEN <<>> ELSE SpanHits(spans, n - 1) \o spans[n].hits

\* C15: merge_profanity_spans partitions its input: no span is empty, the
\* hit lists of the spans, in output order, make up the input sequence, an
\* empty input gives no span and a single hit gives one span holding it.
C15_Partition ==
    mpPc = "done" =>
        /\ \A k \in DOMAIN merged : merged[k].hits # <<>>
        /\ SpanHits(merged, Len(merged)) = mpHits
        /\ mpHits = <<>> => merged = <<>>
        /\ Len(mpHits) = 1 =>
              /\ Len(merged) = 1
              /\ merged[1].hits = mpHits
              /\ merged[1].start = mpHits[1].start
              /\ merged[1].end = mpHits[1].end

\* Three hits were merged into two spans, one of them holding two hits.
C15_Witness ==
    /\ mpPc = "done"
    /\ Len(mpHits) = 3
    /\ Len(merged) = 2
    /\ \E k \in DOMAIN merged : Len(merged[k].hits) = 2


\* The output audio streams that come out of the filter graph.
FilteredOutputs == {k \in DOMAIN outputAudio : outputAudio[k].source = "[aout]"}

\* C16: when the plan has at least one span, it keeps the video stream and
\* every input audio stream, the primary one included, as stream copies and
\* adds the filtered audio after them: the maps are the video, all input
\* audio, then the filter output, and the primary input audio is not removed.
C16_KeepsEveryInputStream ==
    (rpPc = "done" /\ rpSpans # <<>>) =>
        /\ MapArgs(cmd, 1) = <<"0:v:0", "0:a", "[aout]">>
        /\ \A i \in DOMAIN cmd : cmd[i] # "-0:a:0"
        /\ Len(outputAudio) = Len(inputAudio) + 1
        /\ \A i \in DOMAIN inputAudio :
              /\ outputAudio[i].source = AudioSpecifier(i)
              /\ outputAudio[i].codec = "copy"
              /\ outputAudio[i].title = inputAudio[i].title
        /\ outputAudio[Len(outputAudio)].source = "[aout]"

\* C17: when the plan has at least one span, the filtered audio stream is the
\* only stream that is encoded again, it carries the title "Clean", its
\* encoder is the probed codec when that is aac, ac3 or eac3 and aac
\* otherwise, and its bit rate is set to the probed bit rate exactly when
\* that is known and positive.
C17_CleanStreamPlan ==
    (rpPc = "done" /\ rpSpans # <<>>) =>
        /\ FilteredOutputs # {}
        /\ OptionValue(cmd, "-c:v") = "copy"
        /\ \A k \in DOMAIN outputAudio :
              (outputAudio[k].codec # "copy") <=> (k \in FilteredOutputs)
        /\ \A k \in FilteredOutputs :
              /\ outputAudio[k].title = "Clean"
              /\ outputAudio[k].codec =
                    (IF NormalCodec(primary_audio_codec) \in {"aac", "ac3", "eac3"}
                     THEN NormalCodec(primary_audio_codec) ELSE "aac")
              /\ outputAudio[k].bit_rate =
                    (IF primary_audio_bit_rate.known /\ primary_audio_bit_rate.value > 0
                     THEN ToString(primary_audio_bit_rate.value) ELSE NoneStr)

\* The streams of a file that are derived clean streams.
CleanStreams(streams) ==
    {k \in DOMAIN streams :
        streams[k].content = "filtered" \/ streams[k].title = "Clean"}

\* C18: when the input carries the "Clean" marker and force is not set,
\* run_pipeline returns without running any stage and writes nothing; with
\* force set the stages run whatever the marker.  A run without force on the
\* output of a run that censored a span adds no further clean stream.
C18_MarkerSkipsRun ==
    /\ (~force /\ InputHasCleanTrackMarker(inputAudio)) =>
          /\ rpPc \in {"start", "skipped"}
          /\ stagesRun = <<>>
          /\ cmd = <<>>
          /\ outputAudio = <<>>
    /\ force => rpPc # "skipped"
    /\ (inputCensored /\ ~force /\ rpPc = "done") =>
          Cardinality(CleanStreams(outputAudio)) <= Cardinality(CleanStreams(inputAudio))

\* A forced run censored a span of an input that carries the marker, and the
\* next run, without force, was skipped on its output.
C18_Witness ==
    /\ inputCensored
    /\ ~force
    /\ InputHasCleanTrackMarker(inputAudio)
    /\ rpPc = "skipped"

\* The text of a gate that is active on [a, b], in milliseconds.
GateText(a, b) ==
    "volume=enable='between(t," \o Format3f(a) \o "," \o Format3f(b) \o ")':volume=0"

\* C19: build_mute_filter emits one gate per span, in span order, and the
\* gate of span [start, end] is active on [max(0, start), end + 0.150]; the
\* span [1.0, 2.0] gives the gate [1.000, 2.150].
C19_MuteGates ==
    (cmd # <<>> /\ vtMode = "mute" /\ rpSpans # <<>>) =>
        /\ OptionValue(cmd, "-filter_complex") =
              "[0:a:0]"
              \o Join(",", [i \in DOMAIN rpSpans |->
                               GateText(IF rpSpans[i].start > 0 THEN rpSpans[i].start ELSE 0,
                                        rpSpans[i].end + 150)],
                      Len(rpSpans))
              \o "[aout]"
        /\ rpSpans = <<BareSpan(1000, 2000)>> =>
              OptionValue(cmd, "-filter_complex") =
                  "[0:a:0]volume=enable='between(t,1.000,2.150)':volume=0[aout]"

\* The mute filter was built for two spans.
C19_Witness ==
    /\ rpPc = "done"
    /\ vtMode = "mute"
    /\ rpSpans = <<BareSpan(1000, 2000), BareSpan(3500, 3900)>>
    /\ HasOption(cmd, "-filter_complex")

\* The number of windows: ceil(n_frames / frames_per_chunk).
WindowCount ==
    LET fpc == chunk_length_seconds * framerate
    IN  CHOOSE w \in 0..n_frames :
            w * fpc >= n_frames /\ (w > 0 => (w - 1) * fpc < n_frames)

\* The duration of window i in milliseconds: min(chunkLength, remaining).
WindowMs(i) ==
    LET remaining == ((n_frames - i * chunk_length_seconds * framerate) * 1000)
                         \div framerate
    IN  IF chunk_length_seconds * 1000 <= remaining
        THEN chunk_length_seconds * 1000 ELSE remaining

\* C20: for mono audio and a positive chunk length chunk_audio considers
\* ceil(totalFrames / framesPerChunk) windows; window i starts at
\* i * chunkLength seconds and lasts min(chunkLength, remaining) seconds; it
\* is emitted, with index i, exactly when it lasts at least 0.11 s, so only
\* the last window can be dropped; 2.0 s of audio with a 1 s chunk length
\* give 2 chunks starting at 0.0 and 1.0.
C20_Windows ==
    /\ (n_channels = 1 /\ chunk_length_seconds > 0) => caPc \in {"start", "done"}
    /\ caPc = "done" =>
          /\ n_channels = 1 /\ chunk_length_seconds > 0
          /\ \A k \in DOMAIN caChunks :
                LET c == caChunks[k]
                IN  /\ c.index \in 0..(WindowCount - 1)
                    /\ WindowMs(c.index) >= 110
                    /\ c.start_time = c.index * chunk_length_seconds * 1000
                    /\ c.duration = WindowMs(c.index)
          /\ \A j, k \in DOMAIN caChunks :
                j < k => caChunks[j].index < caChunks[k].index
          /\ \A i \in 0..(WindowCount - 1) :
                WindowMs(i) >= 110 => \E k \in DOMAIN caChunks : caChunks[k].index = i
          /\ \A i \in 0..(WindowCount - 2) :
                \E k \in DOMAIN caChunks : caChunks[k].index = i
          /\ (n_frames = 2 * framerate /\ chunk_length_seconds = 1) =>
                /\ Len(caChunks) = 2
                /\ caChunks[1].start_time = 0
                /\ caChunks[2].start_time = 1000

\* Audio of three windows was chunked and the short last window was dropped.
C20_Witness ==
    /\ caPc = "done"
    /\ WindowCount = 3
    /\ Len(caChunks) = 2
    /\ caChunks[2].index = 1


\* The pieces of s between the occurrences of the character sep.
RECURSIVE SplitOn(_, _)
SplitOn(s, sep) ==
    IF \A i \in DOMAIN s : s[i] # sep THEN <<s>>
    ELSE LET p == CHOOSE i \in DOMAIN s :
                     s[i] = sep /\ \A j \in 1..(i - 1) : s[j] # sep
         IN <<SubSeq(s, 1, p - 1)>> \o SplitOn(SubSeq(s, p + 1, Len(s)), sep)

\* Word i of segment seg produced a hit of detect_profanity.
WordProducedHit(seg, i) ==
    \E n \in DOMAIN hits :
        /\ hits[n].segment_id = seg.id /\ hits[n].chunk_index = seg.chunk_index
        /\ hits[n].start = seg.words[i].start /\ hits[n].end = seg.words[i].end
        /\ hits[n].word = TokenNormalize(seg.words[i].word)

\* An occurrence of term in the text of the wordless segment seg produced a hit.
TextProducedHit(seg, term) ==
    \E n \in DOMAIN hits :
        /\ hits[n].segment_id = seg.id /\ hits[n].chunk_index = seg.chunk_index
        /\ hits[n].word = term

\* C21: after detect_profanity and merge_profanity_spans, the text of
\* build_clean_transcript holds the mask token in place of every word that
\* produced a hit: line k is the line of segment k, the token of a word that
\* produced a hit is the mask, and the line of a segment without word timings
\* has no occurrence left of a term that produced a hit there.
C21_HitOccurrencesMasked ==
    dpPc = "cleaned" =>
        LET lines == SplitOn(clean_text, "\n")
        IN /\ Len(lines) = Len(dpSegments)
           /\ \A k \in DOMAIN dpSegments :
                LET seg == dpSegments[k]
                IN IF seg.words # <<>>
                   THEN \A i \in DOMAIN seg.words :
                           WordProducedHit(seg, i)
                               => SplitOn(lines[k], " ")[i] = MaskToken
                   ELSE \A t \in DOMAIN dpTerms :
                           TextProducedHit(seg, dpTerms[t])
                               => CountMatches(dpTerms[t], Lower(lines[k]), 1) = 0

\* C21, the word path alone: every word with timings that produced a hit is
\* replaced by the mask token.
C21_TimedWordsMasked ==
    dpPc = "cleaned" =>
        LET lines == SplitOn(clean_text, "\n")
        IN \A k \in DOMAIN dpSegments : \A i \in DOMAIN dpSegments[k].words :
              WordProducedHit(dpSegments[k], i)
                  => SplitOn(lines[k], " ")[i] = MaskToken

\* The words of a response's segment that are produced: those with a text.
KeptWords(ws) == SelectSeq(ws, LAMBDA w : Strip(w.word) # <<>>)

\* C22: every segment of the response is produced with the chunk's index,
\* and each segment and word timestamp the response gives comes out as that
\* chunk-relative timestamp plus chunk.start_time.
C22_AbsoluteTimestamps ==
    prPc = "done" =>
        /\ Len(prSegments) = Len(prRaw.segments)
        /\ \A k \in DOMAIN prSegments :
              LET raw == prRaw.segments[k]
                  out == prSegments[k]
                  kept == KeptWords(raw.words)
              IN /\ out.chunk_index = prChunk.index
                 /\ raw.start.known
                       => out.start = raw.start.value + prChunk.start_time
                 /\ raw.end.known
                       => out.end = raw.end.value + prChunk.start_time
                 /\ Len(out.words) = Len(kept)
                 /\ \A j \in DOMAIN out.words :
                       /\ kept[j].start.known
                             => out.words[j].start
                                    = kept[j].start.value + prChunk.start_time
                       /\ kept[j].end.known
                             => out.words[j].end
                                    = kept[j].end.value + prChunk.start_time

\* C22 witness: a response parsed for the chunk that starts at 10 s, with a
\* segment from 0.5 s whose last word ends at 1.5 s and whose blank word is
\* dropped.
C22_Witness ==
    /\ prPc = "done"
    /\ prChunk.start_time = 10000
    /\ \E k \in DOMAIN prSegments :
          /\ prSegments[k].start = 10500
          /\ prSegments[k].chunk_index = 1
          /\ Len(prSegments[k].words) = 2
          /\ Len(prRaw.segments[k].words) = 3
          /\ prSegments[k].words[2].end = 11500

\* The rendering of a whole number of milliseconds as HH:MM:SS,mmm.
SrtOfMillis(ms) ==
    SrtText(ms \div 3600000, (ms % 3600000) \div 60000, (ms % 60000) \div 1000,
            ms % 1000)

\* C23: for a non-negative time t, _format_srt_timestamp renders t rounded
\* to the nearest millisecond as HH:MM:SS,mmm, with the millisecond field in
\* 0..999 and the second and minute fields in 0..59: a fraction that rounds
\* up to 1000 ms carries into the seconds.
C23_NearestMillisecond ==
    (tsPc = "done" /\ tsTime >= 0) => tsText = SrtOfMillis(RoundToMillis(tsTime))

\* C23 where no carry is due: a time whose fraction of a second rounds to
\* less than 1000 ms is rendered as the claim says.
C23_WithoutCarry ==
    (tsPc = "done" /\ tsTime >= 0
       /\ RoundToMillis(tsTime % TicksPerSecond) < 1000)
        => tsText = SrtOfMillis(RoundToMillis(tsTime))

\* Worker t waits for the coarse lock, which worker u holds while it loads
\* another model, although the model t asks for is already loaded.
BlockedByOtherLoad(t, u) ==
    /\ t # u
    /\ lwPc[t] \in {"gm_acq", "gl_acq"}
    /\ local_whisper_models[ModelKey(lwArg[t])] # 0
    /\ lwPc[u] = "gm_load"
    /\ local_whisper_models_lock = u
    /\ ModelKey(lwArg[u]) # ModelKey(lwArg[t])

\* C24: the coarse cache lock is never held while a model load or an
\* inference is in progress, so a worker that needs a different, already
\* loaded model is never blocked by another model's load.
C24_AsStated ==
    /\ \A t \in Threads :
           lwPc[t] \in {"gm_load", "infer"} => local_whisper_models_lock # t
    /\ \A t, u \in Threads : ~BlockedByOtherLoad(t, u)

\* C24, amended: a worker never holds the coarse cache lock during an
\* inference, but it holds it for the whole of a model load.
C24_CoarseLockHeldAcrossLoadOnly ==
    \A t \in Threads :
        /\ lwPc[t] = "infer" => local_whisper_models_lock # t
        /\ lwPc[t] = "gm_load" => local_whisper_models_lock = t

\* C24 witness: a worker that needs an already loaded model waits for the
\* coarse lock while another worker loads a different model under it.
C24_Witness == \E t, u \in Threads : BlockedByOtherLoad(t, u)

\* A worker holds the coarse cache lock or a per-model transcribe lock.
HoldsCoarseLock(t) == local_whisper_models_lock = t
HoldsModelLock(t) == \E l \in LockIds : lockOwner[l] = t

\* C28: the locks of the local backend cannot deadlock.  No thread holds the
\* coarse cache lock and a per-model lock at the same time, a thread whose
\* inference raised holds no lock, and while a call is under way some call
\* can take a step.
C28_NoDeadlock ==
    /\ \A t \in Threads : ~(HoldsCoarseLock(t) /\ HoldsModelLock(t))
    /\ \A t \in Threads :
           lwPc[t] \in {"idle", "raised"} => ~HoldsCoarseLock(t) /\ ~HoldsModelLock(t)
    /\ (\E t \in Threads : lwPc[t] \notin {"idle", "raised"}) => ENABLED LwStep

\* C28 witness: after the inference of one worker raised, another worker
\* runs an inference under the lock of the same model name.
C28_Witness ==
    \E t, u \in Threads :
        /\ t # u
        /\ lwPc[u] = "raised"
        /\ lwPc[t] = "infer"
        /\ ModelKey(lwArg[t]) = ModelKey(lwArg[u])
        /\ lwLock[t] = lwLock[u]
        /\ lockOwner[lwLock[t]] = t

\* C25: the remote-API client is constructed at most once per process, and
\* all the workers that call get_client receive that one client.
C25_OneClient ==
    /\ clientsMade <= 1
    /\ \A t, u \in Threads :
           (gcGot[t] # 0 /\ gcGot[u] # 0) => gcGot[t] = gcGot[u]

\* transcribe_chunk(chunk, config), as transcribe_audio_chunks submits it:
\* no model arguments, so the retry loop runs.
CalledByPool == tcPrimaryArg = None /\ tcFallbackArg = None /\ max_retries >= 1

\* C26: a chunk whose backend calls all return a response is never reported
\* as failed.  transcribe_chunk, called with no explicit fallback model,
\* fails only after some call raised, and with no raise it returns a result,
\* whose language is "unknown" when no attempt recognised a language.
C26_RespondingChunkSucceeds ==
    CalledByPool =>
        /\ tcPc = "failed" => \E i \in DOMAIN tcLog : tcLog[i].out = "raise"
        /\ (tcPc = "returned"
              /\ \A i \in DOMAIN tcLog : tcLog[i].out \in {"raise", "unknown"})
               => tcResult.language = "unknown"

\* The languages of the chunks of seq, a list of chunk positions, that
\* transcribe_chunk returned a result for.
RECURSIVE LanguagesOf(_)
LanguagesOf(seq) ==
    IF seq = <<>> THEN <<>>
    ELSE (IF chunkOutcome[Head(seq)].ok
          THEN <<chunkOutcome[Head(seq)].language>> ELSE <<>>)
         \o LanguagesOf(Tail(seq))

\* The first language of langs that is known, "unknown" if there is none.
FirstKnown(langs) ==
    IF \E i \in DOMAIN langs : langs[i] \notin {"", "unknown"}
    THEN langs[CHOOSE i \in DOMAIN langs :
                  /\ langs[i] \notin {"", "unknown"}
                  /\ \A j \in 1..(i - 1) : langs[j] \in {"", "unknown"}]
    ELSE "unknown"

\* The known languages the chunks report.
KnownLanguages ==
    {chunkOutcome[p].language : p \in {q \in DOMAIN chunkOutcome : chunkOutcome[q].ok}}
        \ {"", "unknown"}

\* C27: for fixed per-chunk results the language of the result does not
\* depend on the order in which the workers complete: it is the language
\* that completion in the order of the chunks gives.
C27_AsStated ==
    aggPc = "done" =>
        aggResult.language = FirstKnown(LanguagesOf([p \in DOMAIN chunks |-> p]))

\* C27, amended: the language of the result is the first known language in
\* the order of completion, "unknown" if no chunk reports one.  It is the
\* same for every order of completion when the chunks report at most one
\* known language.
C27_FirstKnownInCompletionOrder ==
    aggPc = "done" =>
        /\ aggResult.language = FirstKnown(LanguagesOf(collected))
        /\ Cardinality(KnownLanguages) <= 1
               => aggResult.language
                      = FirstKnown(LanguagesOf([p \in DOMAIN chunks |-> p]))

\* C27 witness: two chunks report different known languages, the second
\* completes first and its language becomes the language of the result.
C27_Witness ==
    /\ aggPc = "done"
    /\ Len(chunks) = 2
    /\ chunkOutcome[1].ok /\ chunkOutcome[2].ok
    /\ chunkOutcome[1].language = "en" /\ chunkOutcome[2].language = "fr"
    /\ collected = <<2, 1>>
    /\ aggResult.language = "fr"

\* The hit lists of the spans a..b, one after the other.
RECURSIVE HitsOfSpans(_, _, _)
HitsOfSpans(spans, a, b) ==
    IF a > b THEN <<>> ELSE spans[a].hits \o HitsOfSpans(spans, a + 1, b)

\* The span wide is the union of the consecutive spans a..b of fine.
UnionOfSpans(wide, fine, a, b) ==
    /\ a <= b
    /\ wide.hits = HitsOfSpans(fine, a, b)
    /\ wide.start = fine[a].start
    /\ \A k \in a..b : fine[k].end <= wide.end
    /\ \E k \in a..b : fine[k].end = wide.end

\* The number of input hits before each span of spans, and the number of
\* all of them: where the merge cut the input.
Cuts(spans) == {Len(SpanHits(spans, k)) : k \in 0..Len(spans)}

\* C29: for every hit sequence sorted by (start, end) and gaps 0 <= g1 < g2,
\* each span of the merge with g2 is the union of consecutive spans of the
\* merge with g1, the merge with g2 cuts the input only where the merge with
\* g1 does, and it gives no more spans.
C29_LargerGapCoarsens ==
    (mpPc = "done" /\ SortedHits(mpHits) /\ max_gap_ms >= 0) =>
        \A g2 \in Gaps :
            max_gap_ms < g2 =>
                LET wide == MergeProfanitySpans(mpHits, g2)
                IN /\ \A k \in DOMAIN wide :
                         \E a, b \in DOMAIN merged :
                             UnionOfSpans(wide[k], merged, a, b)
                   /\ Cuts(wide) \subseteq Cuts(merged)
                   /\ Len(wide) <= Len(merged)

\* C29 witness: three sorted hits stay three spans at g1 >= 0, and a larger
\* gap unites two of them and leaves the third alone.
C29_Witness ==
    /\ mpPc = "done"
    /\ SortedHits(mpHits)
    /\ max_gap_ms >= 0
    /\ Len(merged) = 3
    /\ \E g2 \in Gaps :
          /\ max_gap_ms < g2
          /\ Len(MergeProfanitySpans(mpHits, g2)) = 2

\* Chunk p has gone through the as_completed loop.
Collected(p) == \E i \in DOMAIN collected : collected[i] = p

\* A thread waits for the coarse cache lock or for a per-model lock.
WaitsForLock(t) == lwPc[t] \in {"gm_acq", "gl_acq", "tl_acq"}

\* Every chunk has gone through the as_completed loop and is aggregated (its
\* segments are in the result) or logged as failed, and no thread waits for
\* a lock or holds one.
AllSettled ==
    /\ \A p \in DOMAIN chunks :
          /\ Collected(p)
          /\ IF chunkOutcome[p].ok
             THEN \A i \in DOMAIN chunkOutcome[p].segments :
                     \E j \in DOMAIN aggResult.segments :
                         aggResult.segments[j] = chunkOutcome[p].segments[i]
             ELSE \E i \in DOMAIN failedLog : failedLog[i] = chunks[p].index
    /\ \A t \in Threads :
          ~WaitsForLock(t) /\ ~HoldsCoarseLock(t) /\ ~HoldsModelLock(t)

\* C30: if every backend call eventually returns or raises,
\* transcribe_audio_chunks eventually returns, with every submitted chunk
\* aggregated or logged as failed and no worker left waiting for a lock.
C30_EventuallyReturns == <>(aggPc = "done" /\ AllSettled)

\* C30 witness: transcribe_audio_chunks has returned for two chunks run by two
\* workers that used up the backend calls, one chunk aggregated and the
\* other logged as failed.
C30_Witness ==
    /\ aggPc = "done"
    /\ max_workers = 2
    /\ Len(chunks) = 2
    /\ callsLeft = 0
    /\ Len(failedLog) = 1
    /\ Len(languages) = 1
    /\ Len(aggResult.segments) = 1

=============================================================================
